---------------------------- MODULE Spec2Model ----------------------------
(***************************************************************************)
(* Model of video-frame-selector (package vfs): the frame selection        *)
(* pipeline (process.py, process_redis.py), the two analysis transports    *)
(* (file exchange, Redis pub/sub), the prediction parsers, the inclusion    *)
(* policy and the crop geometry (predictions.py) and the change detector   *)
(* (prune.py).                                                              *)
(*                                                                         *)
(* Conventions.                                                            *)
(*  - Python None is the empty tuple <<>>, a present value x is <<x>>.      *)
(*  - Scores and CSV numbers are integers in tenths (0.9 is 9, "10.5" is    *)
(*    105).                                                                *)
(*  - Time is counted in ticks.  A tick is one poll interval of the file   *)
(*    exchange; TicksPerSec ticks make one second, so the microsecond      *)
(*    field of the wall clock is (now % TicksPerSec) in tick units.        *)
(*    Timeouts are given in tenths of a tick.                              *)
(***************************************************************************)
EXTENDS Integers, Sequences, FiniteSets, TLC

(***************************************************************************)
(* Bounds of the model.                                                    *)
(***************************************************************************)
MaxFrames == 4
MaxNth == 2
MaxBudget == 1
MaxWait == 3
TicksPerSec == 4
FrameW == 4
FrameH == 3
MaxCalls == 2
MaxPreds == 2
MaxBoxes == 2
MaxRows == 2

(***************************************************************************)
(* Program constants.                                                      *)
(***************************************************************************)
\* process.py:126  "analysis_timeout * 10e6": 10e6 is 10 * 1e6 microseconds,
\* ten times the number of microseconds in a second.
TimeoutFactor == 10

None == <<>>
Some(x) == <<x>>
IsNone(o) == o = <<>>
Min(a, b) == IF a <= b THEN a ELSE b
Max(a, b) == IF a >= b THEN a ELSE b

\* common.py
INPUT_IMAGE_DIR == "image_dir"
INPUT_VIDEO == "video"
INPUT_WEBCAM == "webcam"
INPUT_TYPES == {INPUT_IMAGE_DIR, INPUT_VIDEO, INPUT_WEBCAM}
ANALYSIS_ROISCSV == "rois_csv"
ANALYSIS_OPEXJSON == "opex_json"
ANALYSIS_TYPES == {ANALYSIS_ROISCSV, ANALYSIS_OPEXJSON}
OUTPUT_JPG == "jpg"
OUTPUT_MJPG == "mjpg"
OUTPUT_TYPES == {OUTPUT_JPG, OUTPUT_MJPG}

(***************************************************************************)
(* predictions.py: the prediction model and the two parsers.               *)
(***************************************************************************)
\* Prediction.__init__: coords is None (<<>>) or a 4-tuple.
Prediction(index, label, score, coords) ==
    [index |-> index, label |-> label, score |-> score, coords |-> coords]

\* A CSV cell: numeric text (value in tenths) or text float() rejects.
NumCell(t) == [ok |-> TRUE, tenths |-> t]
BadCell == [ok |-> FALSE, tenths |-> 0]

\* int(float(s)): truncation towards zero of a value given in tenths.
IntOfFloat(t) == IF t >= 0 THEN t \div 10 ELSE -((-t) \div 10)

\* The cells float() is applied to while one row is parsed (lines 58-73).
RowNumericCols(row) ==
    (IF "score" \in DOMAIN row THEN {"score"} ELSE {})
    \cup (IF "x0" \in DOMAIN row THEN {"x0", "y0", "x1", "y1"} ELSE {})
    \cup (IF "x" \in DOMAIN row THEN {"x", "y", "w", "h"} ELSE {})

\* float(...) raises ValueError on non-numeric text, row[...] raises KeyError
\* on a missing column of a group.
RowRaises(row) ==
    \E c \in RowNumericCols(row) : c \notin DOMAIN row \/ ~row[c].ok

\* Lines 70-73 with x + w and y + h for the far corner.
RowCoordsExclusive(row) ==
    IF "x" \in DOMAIN row
    THEN LET x == IntOfFloat(row["x"].tenths)
             y == IntOfFloat(row["y"].tenths)
         IN <<x, y, x + IntOfFloat(row["w"].tenths),
                    y + IntOfFloat(row["h"].tenths)>>
    ELSE IF "x0" \in DOMAIN row
    THEN <<IntOfFloat(row["x0"].tenths), IntOfFloat(row["y0"].tenths),
           IntOfFloat(row["x1"].tenths), IntOfFloat(row["y1"].tenths)>>
    ELSE None

\* Lines 66-73: the second "if" overwrites what the first one set.
RowCoords(row) ==
    IF "x" \in DOMAIN row
    THEN LET x == IntOfFloat(row["x"].tenths)
             y == IntOfFloat(row["y"].tenths)
         IN <<x, y, x + IntOfFloat(row["w"].tenths) - 1,
                    y + IntOfFloat(row["h"].tenths) - 1>>
    ELSE IF "x0" \in DOMAIN row
    THEN <<IntOfFloat(row["x0"].tenths), IntOfFloat(row["y0"].tenths),
           IntOfFloat(row["x1"].tenths), IntOfFloat(row["y1"].tenths)>>
    ELSE None

RowPrediction(i, row) ==
    Prediction(i,
               IF "label_str" \in DOMAIN row THEN row["label_str"] ELSE "",
               IF "score" \in DOMAIN row THEN row["score"].tenths ELSE 10,
               RowCoords(row))

\* _load_roiscsv: [ok |-> FALSE] when a row raises, else the predictions.
load_roiscsv(rows) ==
    IF \E i \in 1..Len(rows) : RowRaises(rows[i])
    THEN [ok |-> FALSE, preds |-> <<>>]
    ELSE [ok |-> TRUE,
          preds |-> [i \in 1..Len(rows) |-> RowPrediction(i - 1, rows[i])]]

\* _opex_to_predictions over ObjectPredictions.from_json_string /
\* load_json_from_file, which raise on a malformed document.
load_opexjson(doc) ==
    IF ~doc.ok
    THEN [ok |-> FALSE, preds |-> <<>>]
    ELSE [ok |-> TRUE,
          preds |-> [i \in 1..Len(doc.objects) |->
                       LET o == doc.objects[i]
                       IN Prediction(i - 1, o.label, o.score,
                            <<o.bbox.left, o.bbox.top,
                              o.bbox.bottom, o.bbox.right>>)]]

(***************************************************************************)
(* predictions.py: check_predictions, the inclusion policy.                *)
(* required_labels / excluded_labels: None (<<>>) or <<set of labels>>.    *)
(***************************************************************************)
RECURSIVE CheckScan(_, _, _, _, _, _)
\* The loop of lines 289-300; result is None (<<>>) or <<BOOLEAN>>.
CheckScan(predictions, i, min_score, required_labels, excluded_labels, result) ==
    IF i > Len(predictions) THEN result
    ELSE LET p == predictions[i]
             r1 == IF ~IsNone(required_labels)
                      /\ Cardinality(required_labels[1]) > 0
                      /\ p.label \in required_labels[1]
                      /\ p.score >= min_score
                   THEN Some(TRUE) ELSE result
             r2 == IF ~IsNone(excluded_labels)
                      /\ Cardinality(excluded_labels[1]) > 0
                      /\ p.label \in excluded_labels[1]
                      /\ p.score >= min_score
                   THEN Some(FALSE) ELSE r1
         IN CheckScan(predictions, i + 1, min_score, required_labels,
                      excluded_labels, r2)

\* check_predictions as a logical combination: some required label is there
\* and no excluded label is.
check_predictions_logical(predictions, min_score, required_labels, excluded_labels) ==
    IF IsNone(required_labels) /\ IsNone(excluded_labels) THEN TRUE
    ELSE /\ \E i \in 1..Len(predictions) :
              /\ ~IsNone(required_labels)
              /\ predictions[i].label \in required_labels[1]
              /\ predictions[i].score >= min_score
         /\ ~\E i \in 1..Len(predictions) :
              /\ ~IsNone(excluded_labels)
              /\ predictions[i].label \in excluded_labels[1]
              /\ predictions[i].score >= min_score

\* check_predictions without lines 301-302 turning None into False.
check_predictions_default_keep(predictions, min_score, required_labels, excluded_labels) ==
    IF IsNone(required_labels) /\ IsNone(excluded_labels) THEN TRUE
    ELSE LET result == CheckScan(predictions, 1, min_score, required_labels,
                                 excluded_labels, None)
         IN IF IsNone(result) THEN TRUE ELSE result[1]

\* check_predictions keeping, with no required labels given, every set in
\* which no excluded label was found.
check_predictions_exclusion_admits(predictions, min_score, required_labels, excluded_labels) ==
    IF IsNone(required_labels) /\ IsNone(excluded_labels) THEN TRUE
    ELSE LET result == CheckScan(predictions, 1, min_score, required_labels,
                                 excluded_labels, None)
         IN IF IsNone(result)
            THEN IsNone(required_labels) \/ required_labels[1] = {}
            ELSE result[1]

check_predictions(predictions, min_score, required_labels, excluded_labels) ==
    IF IsNone(required_labels) /\ IsNone(excluded_labels) THEN TRUE
    ELSE LET result == CheckScan(predictions, 1, min_score, required_labels,
                                 excluded_labels, None)
         IN IF IsNone(result) THEN FALSE ELSE result[1]

(***************************************************************************)
(* predictions.py: crop_frame.                                             *)
(* A frame is [no, x0, y0, w, h, c, luma]: the source frame number, the    *)
(* origin of the kept region within the source image, its size, its number *)
(* of channels and its luma plane (row-major).                             *)
(***************************************************************************)
\* numpy frame[y0:y1, x0:x1] for non-negative indices: the sub-image and
\* its luma plane.
Slice(frame, x0, y0, x1, y1) ==
    LET sx0 == Min(x0, frame.w)
        sx1 == Max(sx0, Min(x1, frame.w))
        sy0 == Min(y0, frame.h)
        sy1 == Max(sy0, Min(y1, frame.h))
        nw == sx1 - sx0
        nh == sy1 - sy0
    IN [no |-> frame.no, x0 |-> frame.x0 + sx0, y0 |-> frame.y0 + sy0,
        w |-> nw, h |-> nh, c |-> frame.c,
        luma |-> [k \in 1..(nw * nh) |->
                    frame.luma[(sy0 + ((k - 1) \div nw)) * frame.w
                               + sx0 + ((k - 1) % nw) + 1]]]

BBox(x0, y0, x1, y1) == [x0 |-> x0, y0 |-> y0, x1 |-> x1, y1 |-> y1]

RECURSIVE CropScanNoSkip(_, _, _)
\* The loop of lines 193-200 without lines 194-195: a prediction without
\* coords counts as the box (0, 0, 0, 0).
CropScanNoSkip(predictions, i, acc) ==
    IF i > Len(predictions) THEN acc
    ELSE LET p == predictions[i]
             c == IF IsNone(p.coords) THEN <<0, 0, 0, 0>> ELSE p.coords
         IN CropScanNoSkip(predictions, i + 1,
                           [x0 |-> Min(acc.x0, c[1]), y0 |-> Min(acc.y0, c[2]),
                            x1 |-> Max(acc.x1, c[3]), y1 |-> Max(acc.y1, c[4])])

RECURSIVE CropScan(_, _, _)
\* The loop of lines 193-200 over the predictions that carry coords.
CropScan(predictions, i, acc) ==
    IF i > Len(predictions) THEN acc
    ELSE LET p == predictions[i]
         IN IF IsNone(p.coords) THEN CropScan(predictions, i + 1, acc)
            ELSE CropScan(predictions, i + 1,
                          BBox(Min(acc.x0, p.coords[1]), Min(acc.y0, p.coords[2]),
                               Max(acc.x1, p.coords[3]), Max(acc.y1, p.coords[4])))

\* Lines 218-228.
CropMargin(b, margin, width, height) ==
    IF margin > 0
    THEN BBox(Max(0, b.x0 - margin), Max(0, b.y0 - margin),
              Min(width - 1, b.x1 + margin), Min(height - 1, b.y1 + margin))
    ELSE b

\* Lines 231-240 with the lower end moved up instead of down.
CropCorrectInward(lo, hi, min_size, size) ==
    LET curr == hi - lo + 1
    IN IF curr < min_size
       THEN LET inc == (min_size - curr) \div 2
                nlo == Min(size - 1, lo + inc)
            IN <<nlo, Min(size - 1, nlo + min_size)>>
       ELSE <<lo, hi>>

\* Lines 231-240 with the upper end at lo' + min_size - 1.
CropCorrectInclusive(lo, hi, min_size, size) ==
    LET curr == hi - lo + 1
    IN IF curr < min_size
       THEN LET inc == (min_size - curr) \div 2
                nlo == Max(0, lo - inc)
            IN <<nlo, Min(size - 1, nlo + min_size - 1)>>
       ELSE <<lo, hi>>

\* Lines 231-240 (and 243-252 with y, height): the pair (lo, hi) corrected.
CropCorrect(lo, hi, min_size, size) ==
    LET curr == hi - lo + 1
    IN IF curr < min_size
       THEN LET inc == (min_size - curr) \div 2
                nlo == Max(0, lo - inc)
            IN <<nlo, Min(size - 1, nlo + min_size)>>
       ELSE <<lo, hi>>

\* crop_frame; predictions is None or <<list>>.  Returns the frame and the
\* metadata (a function from field name to value).
crop_frame(frame, predictions, metadata, margin, min_width, min_height) ==
    LET width == frame.w
        height == frame.h
        m0 == ("frame" :> [width |-> width, height |-> height]) @@ metadata
    IN IF IsNone(predictions) THEN [frame |-> frame, metadata |-> m0]
       ELSE
       LET minimal == CropScan(predictions[1], 1, BBox(width, height, 0, 0))
       IN IF minimal.x0 = width \/ minimal.y0 = height
          THEN [frame |-> frame, metadata |-> ("cropped" :> FALSE) @@ m0]
          ELSE
          LET m1 == ("minimal_bbox" :> minimal) @@ ("cropped" :> TRUE) @@ m0
              mb == CropMargin(minimal, margin, width, height)
              m2 == IF margin > 0 THEN ("margin_bbox" :> mb) @@ m1 ELSE m1
              cx == CropCorrect(mb.x0, mb.x1, min_width, width)
              cy == CropCorrect(mb.y0, mb.y1, min_height, height)
              cb == BBox(cx[1], cy[1], cx[2], cy[2])
          IN [frame |-> Slice(frame, cb.x0, cb.y0, cb.x1, cb.y1),
              metadata |-> ("crop_bbox" :> cb) @@ m2]


(***************************************************************************)
(* prune.py: the change detector.  An image carries its luma plane (what   *)
(* cv2.cvtColor(img, COLOR_BGR2GRAY) yields), row-major, and its number of  *)
(* channels c; img.size is h * w * c.                                      *)
(***************************************************************************)
Abs(a) == IF a >= 0 THEN a ELSE -a

\* diff_img: cv2.absdiff, per pixel.
diff_img(img1, img2) == [i \in 1..Len(img1.luma) |-> Abs(img1.luma[i] - img2.luma[i])]

\* to_bw with "greater or equal" for "greater".
to_bw_inclusive(img, threshold) ==
    [i \in 1..Len(img) |-> IF img[i] >= threshold THEN 255 ELSE 0]

\* to_bw: cv2.threshold(img, threshold, 255, THRESH_BINARY): 255 where the
\* source is greater than the threshold, else 0.
to_bw(img, threshold) == [i \in 1..Len(img) |-> IF img[i] > threshold THEN 255 ELSE 0]

\* count_diff: cv2.countNonZero.
count_diff(img) == Cardinality({i \in 1..Len(img) : img[i] # 0})

\* cv2.absdiff raises when the two arrays differ in shape.
CompareRaises(img1, img2) == img1.w # img2.w \/ img1.h # img2.h

\* detect_change, defined when CompareRaises is false.  The ratio
\* count / size is kept as a fraction; change_threshold is [num, den].
detect_change(img1, img2, bw_threshold, change_threshold) ==
    LET size == img1.h * img1.w * img1.c
        count == count_diff(to_bw(diff_img(img1, img2), bw_threshold))
    IN [count |-> count, size |-> size,
        above |-> count * change_threshold.den > change_threshold.num * size]

(***************************************************************************)
(* The source: nframes frames whose content follows a pattern.             *)
(***************************************************************************)
Luma(w, h, v) == [i \in 1..(w * h) |-> v]

\* What cap.read() / cv2.imread() yields for source frame no (1-based).
SourceImage(kind, no) ==
    CASE kind = "A" -> [no |-> no, x0 |-> 0, y0 |-> 0, w |-> FrameW, h |-> FrameH,
                        c |-> 3, luma |-> Luma(FrameW, FrameH, 0)]
      [] kind = "B" -> [no |-> no, x0 |-> 0, y0 |-> 0, w |-> FrameW, h |-> FrameH,
                        c |-> 3, luma |-> Luma(FrameW, FrameH, 255)]
      [] OTHER      -> [no |-> no, x0 |-> 0, y0 |-> 0, w |-> FrameW - 1, h |-> FrameH,
                        c |-> 3, luma |-> Luma(FrameW - 1, FrameH, 0)]

Patterns == {"same", "alt", "odd"}

PatternKind(pattern, no) ==
    CASE pattern = "same" -> "A"
      [] pattern = "alt"  -> IF no % 2 = 1 THEN "A" ELSE "B"
      [] OTHER            -> IF no = 2 THEN "C" ELSE IF no % 2 = 1 THEN "A" ELSE "B"

(***************************************************************************)
(* Analysis results as the analysis process writes them: ROI tables (rows  *)
(* keyed by column name) and detection documents.                          *)
(***************************************************************************)
RoisDocs ==
    << <<>>,
       << [label_str |-> "cat", score |-> NumCell(9), x0 |-> NumCell(10),
           y0 |-> NumCell(10), x1 |-> NumCell(25), y1 |-> NumCell(20)] >>,
       << [label_str |-> "dog", score |-> NumCell(9), x |-> NumCell(0),
           y |-> NumCell(0), w |-> NumCell(20), h |-> NumCell(20)] >>,
       << [label_str |-> "cat", score |-> BadCell] >> >>

OpexDocs ==
    << [ok |-> TRUE, objects |-> <<>>],
       [ok |-> TRUE, objects |->
           << [label |-> "cat", score |-> 9,
               bbox |-> [left |-> 1, top |-> 1, bottom |-> 2, right |-> 2]] >>],
       [ok |-> FALSE, objects |-> <<>>] >>

NumDocs(analysis_type) ==
    IF analysis_type = ANALYSIS_ROISCSV THEN Len(RoisDocs) ELSE Len(OpexDocs)

\* process.load_output on result document number d: the parse result and
\* the metadata with num_predictions attached (line 47, not reached when
\* the parser raises).
load_output(d, analysis_type, meta) ==
    LET r == IF analysis_type = ANALYSIS_ROISCSV
             THEN load_roiscsv(RoisDocs[d]) ELSE load_opexjson(OpexDocs[d])
    IN [ok |-> r.ok, preds |-> r.preds,
        metadata |-> IF r.ok THEN ("num_predictions" :> Len(r.preds)) @@ meta
                     ELSE meta]

(***************************************************************************)
(* State.                                                                  *)
(***************************************************************************)
VARIABLES
    cfg,              \* the arguments of process()
    pc,               \* where the pipeline is
    cap_open,         \* a cv2.VideoCapture was opened and not released
    out_open,         \* a cv2.VideoWriter was opened and not released
    crop,             \* crop_to_content as process() holds it (line 272)
    count,            \* frames since the last sampled one
    frames_count,     \* frames read
    frames_processed, \* frames emitted (the max_frames budget)
    frame_curr,       \* None or <<frame>>
    frame_prev,       \* None or <<frame>>: the prune baseline
    metadata,         \* None or <<metadata>>
    exc,              \* the exception that left process(), "" if none
    sink,             \* what the output received, in order
    dispatched,       \* frame numbers handed to process_image, in order
    fs,               \* files of the analysis directories
    doc,              \* the result document the analysis wrote (0: none)
    usec,             \* datetime.now().microsecond, in ticks
    elapsed,          \* ticks since the current dispatch started
    fx_end,           \* process_image's local "end", in tenths of a tick
    outcome,          \* how the last process_image call ended
    conn_pubsub,      \* redis_conn.pubsub: None or <<pubsub>>
    conn_thread,      \* redis_conn.pubsub_thread: None or <<thread>>
    conn_data,        \* redis_conn.data: None or <<message>>
    conn_timeout,     \* redis_conn.timeout
    subs,             \* the pubsub objects made so far, with their threads
    rpc,              \* where the pub/sub process_image is
    call,             \* number of the process_image call (its frameno)
    requests,         \* frames published and not answered yet
    ret,              \* None or <<what the last process_image call returned>>
    nmsgs,            \* messages published on channel_in so far
    ref,              \* None or <<what the file-exchange run did>>
    fin,              \* None or <<the arguments of a function called on its own>>
    fout              \* None or <<what that call returned>>

plVars == <<cfg, pc, cap_open, out_open, crop, count, frames_count,
            frames_processed, frame_curr, frame_prev, metadata, exc, sink,
            dispatched>>
fxVars == <<fs, doc, usec, elapsed, fx_end, outcome>>
rdVars == <<conn_pubsub, conn_thread, conn_data, conn_timeout, subs, rpc, call,
            requests, ret, nmsgs, ref, fin, fout>>

(***************************************************************************)
(* Configurations.                                                         *)
(***************************************************************************)
Labels(s) == Some(s)

BaseCfg ==
    [transport |-> "file", input_type |-> INPUT_IMAGE_DIR, nframes |-> 0,
     pattern |-> "same", nth_frame |-> 1, max_frames |-> 0,
     from_frame |-> -1, to_frame |-> -1, prune |-> FALSE,
     bw_threshold |-> 128, change_threshold |-> [num |-> 0, den |-> 1],
     analysis_input |-> None, analysis_output |-> None, analysis_tmp |-> None,
     analysis_timeout |-> 100, analysis_type |-> ANALYSIS_ROISCSV,
     analysis_keep_files |-> FALSE, min_score |-> 0,
     required_labels |-> None, excluded_labels |-> None, poll_interval |-> 1,
     output_type |-> OUTPUT_JPG, output_metadata |-> FALSE,
     crop_to_content |-> FALSE, crop_margin |-> 0, crop_min_width |-> 2,
     crop_min_height |-> 2, oracle |-> "none"]

\* Sampling, window, budget and pruning, no analysis.
SamplingCfgs ==
    { [BaseCfg EXCEPT !.input_type = it, !.nframes = n, !.nth_frame = k,
                      !.max_frames = mf, !.from_frame = ff, !.to_frame = tf,
                      !.prune = pr[1], !.pattern = pr[2],
                      !.output_type = ot, !.output_metadata = om,
                      !.analysis_output = ao] :
        it \in {INPUT_IMAGE_DIR, INPUT_VIDEO}, n \in 0..MaxFrames,
        k \in 1..MaxNth, mf \in 0..MaxBudget, ff \in {-1, 2},
        tf \in {-1, 1, 2},
        pr \in {<<FALSE, "same">>} \cup {<<TRUE, p>> : p \in Patterns},
        ot \in OUTPUT_TYPES, om \in BOOLEAN, ao \in {None, Some("out")} }

\* File exchange with the analysis process.
AnalysisCfgs ==
    { [BaseCfg EXCEPT !.input_type = INPUT_VIDEO, !.nframes = n,
                      !.analysis_input = Some("in"),
                      !.analysis_output = Some("out"),
                      !.analysis_tmp = tmp, !.analysis_timeout = t,
                      !.analysis_type = at, !.analysis_keep_files = kf,
                      !.required_labels = lb[1], !.excluded_labels = lb[2],
                      !.output_type = ot, !.output_metadata = TRUE,
                      !.crop_to_content = cr, !.max_frames = lim[1],
                      !.from_frame = lim[2], !.to_frame = lim[3]] :
        n \in {1, 2}, tmp \in {None, Some("tmp")},
        lim \in {<<0, -1, -1>>, <<1, -1, -1>>, <<0, 2, 2>>},
        t \in {2, 10}, at \in ANALYSIS_TYPES, kf \in BOOLEAN,
        lb \in {<<None, None>>, <<Labels({"cat"}), Labels({"dog"})>>},
        ot \in OUTPUT_TYPES, cr \in BOOLEAN }

Configs == SamplingCfgs \cup AnalysisCfgs

(***************************************************************************)
(* process.process: set-up (lines 231-283).                                *)
(***************************************************************************)
InitPipeline ==
    /\ pc = "start"
    /\ cap_open = FALSE
    /\ out_open = FALSE
    /\ crop = FALSE
    /\ count = 0
    /\ frames_count = 0
    /\ frames_processed = 0
    /\ frame_curr = None
    /\ frame_prev = None
    /\ metadata = None
    /\ exc = ""
    /\ sink = <<>>
    /\ dispatched = <<>>
    /\ fs = {}
    /\ doc = 0
    /\ elapsed = 0
    /\ fx_end = 0
    /\ outcome = "none"

NoSub ==
    [state |-> "none", running |-> FALSE, inbox |-> <<>>, hpc |-> "idle",
     data |-> None]

InitRedisIdle ==
    /\ conn_pubsub = None
    /\ conn_thread = None
    /\ conn_data = None
    /\ conn_timeout = 0
    /\ subs = [s \in 1..MaxCalls |-> NoSub]
    /\ rpc = "idle"
    /\ call = 0
    /\ requests = {}
    /\ ret = None
    /\ nmsgs = 0
    /\ ref = None
    /\ fin = None
    /\ fout = None

Init ==
    /\ cfg \in Configs
    /\ usec \in IF IsNone(cfg.analysis_input) THEN {0} ELSE 0..(TicksPerSec - 1)
    /\ InitPipeline
    /\ InitRedisIdle

\* cap is not None: a VideoCapture is made for video and webcam input.
HasCap(c) == c.input_type \in {INPUT_VIDEO, INPUT_WEBCAM}

\* The exception the set-up raises after the input was opened, "" if none,
\* in the order of the checks.  The analysis directory checks exist in
\* process.py only.
OpenError(c) ==
    IF c.from_frame > 0 /\ c.to_frame > 0 /\ c.from_frame > c.to_frame
    THEN "Exception"
    ELSE IF c.transport = "file" /\ ~IsNone(c.analysis_input) /\ IsNone(c.analysis_output)
    THEN "Exception"
    ELSE IF c.transport = "file" /\ IsNone(c.analysis_input) /\ ~IsNone(c.analysis_output)
    THEN "Exception"
    ELSE IF c.output_type = OUTPUT_MJPG /\ ~HasCap(c)
    THEN "AttributeError"
    ELSE ""

\* crop_to_content taken as it was requested, whatever the output.
CropEnabledAsRequested(c) == c.crop_to_content

\* Line 272: crop_to_content = False once the video writer is opened.
CropEnabled(c) == c.crop_to_content /\ c.output_type # OUTPUT_MJPG

Open ==
    /\ pc = "start"
    /\ cap_open' = HasCap(cfg)
    /\ exc' = OpenError(cfg)
    /\ out_open' = (exc' = "" /\ cfg.output_type = OUTPUT_MJPG)
    /\ crop' = CropEnabled(cfg)
    /\ pc' = IF exc' = "" THEN "loop" ELSE "raised"
    /\ UNCHANGED <<cfg, count, frames_count, frames_processed, frame_curr,
                   frame_prev, metadata, sink, dispatched>>
    /\ UNCHANGED fxVars
    /\ UNCHANGED rdVars

(***************************************************************************)
(* process.process: one iteration of the frame loop up to the decision to  *)
(* hand the frame on (lines 285-336).                                      *)
(***************************************************************************)
\* Line 313 with > for >=.
SampledOffByOne(cnt, nth_frame) == cnt > nth_frame

\* Line 313 with = for >=.
SampledExact(cnt, nth_frame) == cnt = nth_frame

\* Line 313.
Sampled(cnt, nth_frame) == cnt >= nth_frame

\* Line 300 with <= for <.
BeforeWindowInclusive(fno, from_frame) == from_frame > 0 /\ fno <= from_frame

\* Line 300: the frame is before the window.
BeforeWindow(fno, from_frame) == from_frame > 0 /\ fno < from_frame

\* Line 302 with >= for >.
AfterWindowExclusive(fno, to_frame) == to_frame > 0 /\ fno >= to_frame

\* Line 302: the frame is after the window.
AfterWindow(fno, to_frame) == to_frame > 0 /\ fno > to_frame

\* Line 306 with > for >=.
BudgetReachedLate(processed, max_frames) == max_frames > 0 /\ processed > max_frames

\* Line 306.
BudgetReached(processed, max_frames) == max_frames > 0 /\ processed >= max_frames

\* Lines 325-330 without line 326.
CompareFailedKeepsBaseline(fcur, fprev) == [frame_curr |-> None, frame_prev |-> fprev]

\* Lines 325-330: what the handler of a failed comparison leaves in
\* frame_curr and frame_prev.
CompareFailed(fcur, fprev) == [frame_curr |-> None, frame_prev |-> None]

\* Lines 319-322 with the first frame handed on as well.
NoBaselinePassesOn(fcur) ==
    [next |-> "selected", frame_curr |-> fcur, frame_prev |-> fcur]

\* Lines 319-322: nothing to compare with; the frame becomes the baseline.
NoBaseline(fcur) == [next |-> "continue", frame_curr |-> None, frame_prev |-> fcur]

LoopIter ==
    LET retval == frames_count < cfg.nframes
        fno == frames_count + 1
        fcur == IF retval
                THEN Some(SourceImage(PatternKind(cfg.pattern, fno), fno))
                ELSE IF HasCap(cfg) THEN None ELSE frame_curr
        cnt == count + 1
        R(next, c, fc, fp, md) ==
            [next |-> next, count |-> c, frame_curr |-> fc, frame_prev |-> fp,
             metadata |-> md]
    IN IF BeforeWindow(fno, cfg.from_frame)
       THEN R("continue", cnt, fcur, frame_prev, metadata)
       ELSE IF AfterWindow(fno, cfg.to_frame)
       THEN R("break", cnt, fcur, frame_prev, metadata)
       ELSE IF BudgetReached(frames_processed, cfg.max_frames)
       THEN R("break", cnt, fcur, frame_prev, metadata)
       ELSE IF ~retval
       THEN R("break", cnt, fcur, frame_prev, metadata)
       ELSE IF ~Sampled(cnt, cfg.nth_frame)
       THEN R("continue", cnt, fcur, frame_prev, metadata)
       ELSE IF ~cfg.prune
       THEN R("selected", 0, fcur, frame_prev, None)
       ELSE IF IsNone(frame_prev)
       THEN R(NoBaseline(fcur).next, 0, NoBaseline(fcur).frame_curr,
              NoBaseline(fcur).frame_prev, None)
       ELSE IF CompareRaises(frame_prev[1], fcur[1])
       THEN R("continue", 0, CompareFailed(fcur, frame_prev).frame_curr,
              CompareFailed(fcur, frame_prev).frame_prev, None)
       ELSE IF ~detect_change(frame_prev[1], fcur[1], cfg.bw_threshold,
                              cfg.change_threshold).above
       THEN R("continue", 0, fcur, frame_prev, None)
       ELSE R("selected", 0, fcur, frame_prev, None)

\* process.py: the frame goes to process_image when an analysis input
\* directory is configured (line 339), else straight to the output.
NextFrame ==
    /\ pc = "loop"
    /\ cfg.transport = "file"
    /\ LET r == LoopIter
       IN /\ count' = r.count
          /\ frames_count' = frames_count + 1
          /\ frame_curr' = r.frame_curr
          /\ frame_prev' = r.frame_prev
          /\ metadata' = r.metadata
          /\ pc' = CASE r.next = "continue" -> "loop"
                     [] r.next = "break" -> "finish"
                     [] OTHER -> IF IsNone(cfg.analysis_input) THEN "emit"
                                 ELSE "dispatch"
    /\ UNCHANGED <<cfg, cap_open, out_open, crop, frames_processed, exc, sink,
                   dispatched>>
    /\ UNCHANGED fxVars
    /\ UNCHANGED rdVars

(***************************************************************************)
(* process.process_image, the file exchange.                               *)
(***************************************************************************)
File(kind, no) == [kind |-> kind, no |-> no]

\* Lines 113-119: the result files looked for, in order.
OutKinds(analysis_type) ==
    IF analysis_type = ANALYSIS_ROISCSV THEN <<"rois", "csv">> ELSE <<"json">>

\* Line 126: end = datetime.now().microsecond + analysis_timeout * 10e6.
\* In tenths of a tick: the microsecond field is 10 * usec, the timeout is
\* given in tenths of a tick.
PollEnd(us, analysis_timeout) == 10 * us + TimeoutFactor * analysis_timeout

\* Line 127: datetime.now().microsecond < end.
PollOn(us, end) == 10 * us < end

\* cleanup_file on the input image and the output-directory image.
Cleanup(files, no) == files \ {File("in_jpg", no), File("out_jpg", no)}

\* Lines 97-126: the image is written (to the tmp directory and renamed, or
\* directly) and the polling deadline is set.
Dispatch ==
    /\ pc = "dispatch"
    /\ fs' = fs \cup {File("in_jpg", frames_count)}
    /\ metadata' = Some(<<>>)
    /\ fx_end' = PollEnd(usec, cfg.analysis_timeout)
    /\ elapsed' = 0
    /\ doc' = 0
    /\ outcome' = "none"
    /\ dispatched' = Append(dispatched, frames_count)
    /\ pc' = "poll"
    /\ UNCHANGED <<cfg, cap_open, out_open, crop, count, frames_count,
                   frames_processed, frame_curr, frame_prev, exc, sink, usec>>
    /\ UNCHANGED rdVars

\* Line 152 returning True.
TimeoutReturnKeeps(frame, meta) == [keep |-> TRUE, frame |-> frame, metadata |-> meta]

\* Lines 148-152: what process_image returns when the loop ends.
TimeoutReturn(frame, meta) == [keep |-> FALSE, frame |-> frame, metadata |-> meta]

\* Lines 345-346: "if not keep: continue".
AfterDispatch(keep) == IF keep THEN "emit" ELSE "loop"

\* One evaluation of the loop condition (line 127) with what follows it: a
\* result file is found and handled (129-145), or poll_interval is slept
\* (146), or the loop is left (148-152); and the caller's lines 340-346.
Poll ==
    /\ pc = "poll"
    /\ LET no == frames_count
           outs == OutKinds(cfg.analysis_type)
           found == {i \in 1..Len(outs) : File(outs[i], no) \in fs}
       IN IF PollOn(usec, fx_end)
          THEN IF found # {}
               THEN LET i == CHOOSE j \in found : \A k \in found : j <= k
                        lo == load_output(doc, cfg.analysis_type, metadata[1])
                        result == check_predictions(lo.preds, cfg.min_score,
                                     cfg.required_labels, cfg.excluded_labels)
                        cf == IF result /\ crop
                              THEN crop_frame(frame_curr[1], Some(lo.preds),
                                     lo.metadata, cfg.crop_margin,
                                     cfg.crop_min_width, cfg.crop_min_height)
                              ELSE [frame |-> frame_curr[1], metadata |-> lo.metadata]
                    IN IF ~lo.ok
                       THEN /\ exc' = "ValueError"
                            /\ pc' = "raised"
                            /\ outcome' = "error"
                            /\ UNCHANGED <<fs, frame_curr, metadata, usec, elapsed>>
                       ELSE /\ fs' = Cleanup(IF cfg.analysis_keep_files THEN fs
                                             ELSE fs \ {File(outs[i], no)}, no)
                            /\ frame_curr' = Some(cf.frame)
                            /\ metadata' = Some(cf.metadata)
                            /\ outcome' = IF result THEN "keep" ELSE "drop"
                            /\ pc' = AfterDispatch(result)
                            /\ UNCHANGED <<exc, usec, elapsed>>
               ELSE /\ elapsed < MaxWait
                    /\ usec' = (usec + cfg.poll_interval) % TicksPerSec
                    /\ elapsed' = elapsed + cfg.poll_interval
                    /\ UNCHANGED <<pc, fs, frame_curr, metadata, exc, outcome>>
          ELSE LET r == TimeoutReturn(frame_curr[1], metadata[1])
               IN /\ fs' = Cleanup(fs, no)
                  /\ frame_curr' = Some(r.frame)
                  /\ metadata' = Some(r.metadata)
                  /\ outcome' = "timeout"
                  /\ pc' = AfterDispatch(r.keep)
                  /\ UNCHANGED <<exc, usec, elapsed>>
    /\ UNCHANGED <<cfg, cap_open, out_open, crop, count, frames_count,
                   frames_processed, frame_prev, sink, dispatched, doc, fx_end>>
    /\ UNCHANGED rdVars

\* The analysis process (not part of the repository): once the input image
\* of a frame is there it writes the result document under one or both of
\* the expected names, possibly with an image copy in the output directory,
\* and possibly takes the input image away.
AnalyzerWrite ==
    /\ \E no \in {frames_count} :
        /\ File("in_jpg", no) \in fs
        /\ doc = 0
        /\ \E d \in 1..NumDocs(cfg.analysis_type),
              kinds \in (SUBSET {OutKinds(cfg.analysis_type)[i] :
                            i \in 1..Len(OutKinds(cfg.analysis_type))}) \ {{}},
              img \in BOOLEAN, take \in BOOLEAN :
            /\ doc' = d
            /\ fs' = ((fs \cup {File(k, no) : k \in kinds})
                         \cup (IF img THEN {File("out_jpg", no)} ELSE {}))
                     \ (IF take THEN {File("in_jpg", no)} ELSE {})
    /\ UNCHANGED plVars
    /\ UNCHANGED <<usec, elapsed, fx_end, outcome>>
    /\ UNCHANGED rdVars

(***************************************************************************)
(* process.process: the frame is written to the output (lines 348-385),    *)
(* and the end of the run (389-394).                                       *)
(***************************************************************************)
\* Lines 368 and 380: a metadata record is written alongside a JPG frame.
MetaWritten(c, md) == c.output_type = OUTPUT_JPG /\ c.output_metadata /\ ~IsNone(md)

\* Lines 350-385 putting the frame in front of what was written before.
SinkWriteFirst(snk, rec) == <<rec>> \o snk

\* Lines 350-385: the frame is written after the frames written before it
\* (out.write appends to the video, the JPG file names count up).
SinkWrite(snk, rec) == Append(snk, rec)

\* The output may fail (cv2.imwrite, os.rename, open): the error leaves
\* process().
Emit ==
    /\ pc = "emit"
    /\ frames_processed' = frames_processed + 1
    /\ \E io_ok \in BOOLEAN :
        IF io_ok
        THEN /\ sink' = SinkWrite(sink, [no |-> frames_count, frame |-> frame_curr[1],
                                         meta |-> IF MetaWritten(cfg, metadata)
                                                  THEN metadata ELSE None])
             /\ pc' = "loop"
             /\ exc' = exc
        ELSE /\ sink' = sink
             /\ pc' = "raised"
             /\ exc' = "IOError"
    /\ UNCHANGED <<cfg, cap_open, out_open, crop, count, frames_count,
                   frame_curr, frame_prev, metadata, dispatched>>
    /\ UNCHANGED fxVars
    /\ UNCHANGED rdVars

Finish ==
    /\ pc = "finish"
    /\ cap_open' = FALSE
    /\ out_open' = FALSE
    /\ pc' = "done"
    /\ UNCHANGED <<cfg, crop, count, frames_count, frames_processed, frame_curr,
                   frame_prev, metadata, exc, sink, dispatched>>
    /\ UNCHANGED fxVars
    /\ UNCHANGED rdVars

vars == <<cfg, pc, cap_open, out_open, crop, count, frames_count,
          frames_processed, frame_curr, frame_prev, metadata, exc, sink,
          dispatched, fs, doc, usec, elapsed, fx_end, outcome, conn_pubsub,
          conn_thread, conn_data, conn_timeout, subs, rpc, call, requests, ret,
          nmsgs, ref, fin, fout>>

Next == Open \/ NextFrame \/ Dispatch \/ Poll \/ AnalyzerWrite \/ Emit \/ Finish

Spec == Init /\ [][Next]_vars

(***************************************************************************)
(* process_redis.process_image, the pub/sub exchange, called for one frame *)
(* after the other with the same RedisConnection.  A tick is one sleep of  *)
(* the wait loop (0.01 s); conn_timeout is in tenths of a tick.  A pubsub  *)
(* object and its worker thread are named by the number of the call that   *)
(* made them.  A reply carries the number of the frame it answers (known   *)
(* to the analysis process only) and the number of its result document.   *)
(***************************************************************************)
RedisCfgs ==
    { [BaseCfg EXCEPT !.transport = "redis", !.analysis_type = at,
                      !.required_labels = Labels({"cat"}),
                      !.excluded_labels = Labels({"dog"}),
                      !.crop_to_content = TRUE] :
        at \in ANALYSIS_TYPES }

\* The document the analysis process answers with: the one with a "cat".
ReplyDocs(analysis_type) == {2}

RedisTimeouts == {0, 10, 15}

InitRedis ==
    /\ cfg \in RedisCfgs
    /\ usec = 0
    /\ InitPipeline
    /\ conn_pubsub = None
    /\ conn_thread = None
    /\ conn_data = None
    /\ conn_timeout \in RedisTimeouts
    /\ subs = [s \in 1..MaxCalls |-> NoSub]
    /\ rpc = "idle"
    /\ call = 0
    /\ requests = {}
    /\ ret = None
    /\ nmsgs = 0
    /\ ref = None
    /\ fin = None
    /\ fout = None

rdOther == <<cfg, pc, cap_open, out_open, crop, count, frames_count,
             frames_processed, frame_curr, frame_prev, metadata, exc, sink,
             dispatched, fs, doc, usec, fx_end, outcome, conn_timeout, ref,
             fin, fout>>

\* The frame handed to call number no.
CallFrame(no) == SourceImage("A", no)

\* Lines 91-103: a new pubsub is made, subscribed to channel_in with the
\* handler, and its worker thread started.
RSubscribe ==
    /\ rpc = "idle"
    /\ call < MaxCalls
    /\ call' = call + 1
    /\ conn_pubsub' = Some(call')
    /\ conn_thread' = Some(call')
    /\ subs' = [subs EXCEPT ![call'] = [NoSub EXCEPT !.state = "open",
                                                    !.running = TRUE]]
    /\ rpc' = "publish"
    /\ UNCHANGED <<conn_data, requests, ret, nmsgs, elapsed>>
    /\ UNCHANGED rdOther

\* Lines 104-108: the frame is published and the wait starts.
RPublish ==
    /\ rpc = "publish"
    /\ requests' = requests \cup {call}
    /\ elapsed' = 0
    /\ rpc' = "wait"
    /\ UNCHANGED <<conn_pubsub, conn_thread, conn_data, subs, call, ret, nmsgs>>
    /\ UNCHANGED rdOther

\* Line 113 with > for >=.
TimedOutLate(el, timeout) == timeout > 0 /\ 10 * el > timeout

\* Lines 111-113: the timeout test after a sleep.
TimedOut(el, timeout) == timeout > 0 /\ 10 * el >= timeout

\* Lines 119-120.
NoDataReturn(frame) == [keep |-> FALSE, frame |-> frame, metadata |-> <<>>]

Returned(no, r, no_data, for, waited) ==
    [frameno |-> no, keep |-> r.keep, frame |-> r.frame, metadata |-> r.metadata,
     no_data |-> no_data, for |-> for, waited |-> waited, nmsgs |-> nmsgs]

\* Line 109: the loop condition; when pubsub is None the loop is left and
\* redis_conn.data is parsed and checked (lines 122-131).
RWait ==
    /\ rpc = "wait"
    /\ IF ~IsNone(conn_pubsub)
       THEN /\ rpc' = "sleep"
            /\ UNCHANGED <<ret>>
       ELSE LET lo == load_output(conn_data[1].doc, cfg.analysis_type, <<>>)
                result == check_predictions(lo.preds, cfg.min_score,
                             cfg.required_labels, cfg.excluded_labels)
                cf == IF result /\ cfg.crop_to_content
                      THEN crop_frame(CallFrame(call), Some(lo.preds), lo.metadata,
                             cfg.crop_margin, cfg.crop_min_width,
                             cfg.crop_min_height)
                      ELSE [frame |-> CallFrame(call), metadata |-> lo.metadata]
            IN IF ~lo.ok
               THEN /\ rpc' = "raised"
                    /\ UNCHANGED <<ret>>
               ELSE /\ rpc' = "idle"
                    /\ ret' = Some(Returned(call, [keep |-> result, frame |-> cf.frame,
                                                   metadata |-> cf.metadata],
                                            FALSE, conn_data[1].for, elapsed))
    /\ elapsed' = IF rpc' = "idle" THEN 0 ELSE elapsed
    /\ UNCHANGED <<conn_pubsub, conn_thread, conn_data, subs, call, requests,
                   nmsgs>>
    /\ UNCHANGED rdOther

\* Lines 110-120: sleep(0.01), then the timeout test.
RSleep ==
    /\ rpc = "sleep"
    /\ elapsed < MaxWait
    /\ IF TimedOut(elapsed + 1, conn_timeout)
       THEN /\ rpc' = "idle"
            /\ ret' = Some(Returned(call, NoDataReturn(CallFrame(call)),
                                    TRUE, 0, elapsed + 1))
            /\ elapsed' = 0
       ELSE /\ rpc' = "wait"
            /\ elapsed' = elapsed + 1
            /\ UNCHANGED <<ret>>
    /\ UNCHANGED <<conn_pubsub, conn_thread, conn_data, subs, call, requests, nmsgs>>
    /\ UNCHANGED rdOther

\* The analysis process answers a published frame on channel_in at any
\* later time; Redis hands the message to every subscription open then.
RReply ==
    /\ \E f \in requests, d \in ReplyDocs(cfg.analysis_type) :
        /\ requests' = requests \ {f}
        /\ subs' = [s \in 1..MaxCalls |->
                      IF subs[s].state = "open"
                      THEN [subs[s] EXCEPT !.inbox = Append(@, [for |-> f, doc |-> d])]
                      ELSE subs[s]]
    /\ nmsgs' = nmsgs + 1
    /\ UNCHANGED <<conn_pubsub, conn_thread, conn_data, rpc, call, ret, elapsed>>
    /\ UNCHANGED rdOther

\* The worker thread of pubsub s (started at line 103) takes the next
\* message and calls anon_handler with it; lines 95-96:
\* data = message['data']; redis_conn.data = data.
HGet(s) ==
    /\ subs[s].state = "open"
    /\ subs[s].running
    /\ subs[s].hpc = "idle"
    /\ subs[s].inbox # <<>>
    /\ conn_data' = Some(Head(subs[s].inbox))
    /\ subs' = [subs EXCEPT ![s] = [@ EXCEPT !.inbox = Tail(@), !.hpc = "h97",
                                             !.data = Some(Head(subs[s].inbox))]]
    /\ UNCHANGED <<conn_pubsub, conn_thread>>

\* Line 97: redis_conn.pubsub_thread.stop(), on the thread the connection
\* holds now.
H97(s) ==
    /\ subs[s].hpc = "h97"
    /\ subs' = [t \in 1..MaxCalls |->
                  IF t = s
                  THEN [subs[t] EXCEPT !.hpc = "h98",
                                       !.running = IF conn_thread = Some(t)
                                                   THEN FALSE ELSE @]
                  ELSE IF conn_thread = Some(t)
                  THEN [subs[t] EXCEPT !.running = FALSE]
                  ELSE subs[t]]
    /\ UNCHANGED <<conn_pubsub, conn_thread, conn_data>>

\* Line 98: redis_conn.pubsub.close(), on the pubsub the connection holds
\* now; AttributeError, which ends the thread, when that is None.
H98(s) ==
    /\ subs[s].hpc = "h98"
    /\ subs' = [t \in 1..MaxCalls |->
                  IF t = s
                  THEN [subs[t] EXCEPT !.hpc = IF IsNone(conn_pubsub) THEN "dead"
                                               ELSE "h99",
                                       !.data = IF IsNone(conn_pubsub) THEN None
                                                ELSE @,
                                       !.state = IF conn_pubsub = Some(t)
                                                 THEN "closed" ELSE @]
                  ELSE IF conn_pubsub = Some(t)
                  THEN [subs[t] EXCEPT !.state = "closed"]
                  ELSE subs[t]]
    /\ UNCHANGED <<conn_pubsub, conn_thread, conn_data>>

\* Line 99: redis_conn.pubsub = None.
H99(s) ==
    /\ subs[s].hpc = "h99"
    /\ conn_pubsub' = None
    /\ subs' = [subs EXCEPT ![s] = [@ EXCEPT !.hpc = "idle", !.data = None]]
    /\ UNCHANGED <<conn_thread, conn_data>>

\* A stopped worker thread leaves its loop and closes its own pubsub.
ThreadExit(s) ==
    /\ subs[s].hpc = "idle"
    /\ ~subs[s].running
    /\ subs[s].state = "open"
    /\ subs' = [subs EXCEPT ![s] = [@ EXCEPT !.state = "closed"]]
    /\ UNCHANGED <<conn_pubsub, conn_thread, conn_data>>

Handler ==
    /\ \E s \in 1..MaxCalls :
          HGet(s) \/ H97(s) \/ H98(s) \/ H99(s) \/ ThreadExit(s)
    /\ UNCHANGED <<rpc, call, requests, ret, nmsgs, elapsed>>
    /\ UNCHANGED rdOther

NextRedis == RSubscribe \/ RPublish \/ RWait \/ RSleep \/ RReply \/ Handler

SpecRedis == InitRedis /\ [][NextRedis]_vars

(***************************************************************************)
(* process_redis.process: the frame loop (lines 249-306).  It is the loop  *)
(* of process.py, but every sampled frame goes to process_image, and the   *)
(* call at line 302 reads the local variable "frame" before anything was   *)
(* assigned to it: UnboundLocalError.                                      *)
(***************************************************************************)
NextFrameRedis ==
    /\ pc = "loop"
    /\ cfg.transport = "redis"
    /\ LET r == LoopIter
       IN /\ count' = r.count
          /\ frames_count' = frames_count + 1
          /\ frame_curr' = r.frame_curr
          /\ frame_prev' = r.frame_prev
          /\ pc' = CASE r.next = "continue" -> "loop"
                     [] r.next = "break" -> "finish"
                     [] OTHER -> "raised"
          /\ exc' = IF r.next = "selected" THEN "UnboundLocalError" ELSE exc
    /\ UNCHANGED <<cfg, cap_open, out_open, crop, frames_processed, metadata,
                   sink, dispatched>>
    /\ UNCHANGED fxVars
    /\ UNCHANGED rdVars

(***************************************************************************)
(* The two pipelines on the same input: process.process runs to its end,   *)
(* what it dispatched and emitted is kept in ref, and process_redis.process *)
(* runs with the same arguments.  The analysis process answers every frame *)
(* with the document cfg.oracle fixes for it.                              *)
(***************************************************************************)
OracleDoc(oracle, no) == IF oracle = "alt" /\ no % 2 = 0 THEN 1 ELSE 2

SymCfgs ==
    { [BaseCfg EXCEPT !.input_type = INPUT_VIDEO, !.nframes = n,
                      !.nth_frame = k, !.analysis_input = Some("in"),
                      !.analysis_output = Some("out"), !.analysis_timeout = 10,
                      !.analysis_type = at,
                      !.required_labels = Labels({"cat"}),
                      !.excluded_labels = Labels({"dog"}),
                      !.output_type = ot, !.crop_to_content = cr,
                      !.oracle = o] :
        n \in 0..MaxFrames, k \in 1..MaxNth, at \in ANALYSIS_TYPES,
        ot \in OUTPUT_TYPES, cr \in BOOLEAN, o \in {"keep", "alt"} }

InitSym ==
    /\ cfg \in SymCfgs
    /\ usec = 0
    /\ InitPipeline
    /\ InitRedisIdle

AnalyzerOracle ==
    /\ File("in_jpg", frames_count) \in fs
    /\ doc = 0
    /\ doc' = OracleDoc(cfg.oracle, frames_count)
    /\ fs' = fs \cup {File(OutKinds(cfg.analysis_type)[1], frames_count)}
    /\ UNCHANGED plVars
    /\ UNCHANGED <<usec, elapsed, fx_end, outcome>>
    /\ UNCHANGED rdVars

\* main() of process_redis.py called with the arguments main() of
\* process.py was called with.
SwitchTransport ==
    /\ pc \in {"done", "raised"}
    /\ cfg.transport = "file"
    /\ IsNone(ref)
    /\ ref' = Some([dispatched |-> dispatched, sink |-> sink, exc |-> exc])
    /\ cfg' = [cfg EXCEPT !.transport = "redis"]
    /\ pc' = "start"
    /\ cap_open' = FALSE
    /\ out_open' = FALSE
    /\ crop' = FALSE
    /\ count' = 0
    /\ frames_count' = 0
    /\ frames_processed' = 0
    /\ frame_curr' = None
    /\ frame_prev' = None
    /\ metadata' = None
    /\ exc' = ""
    /\ sink' = <<>>
    /\ dispatched' = <<>>
    /\ fs' = {}
    /\ doc' = 0
    /\ elapsed' = 0
    /\ fx_end' = 0
    /\ outcome' = "none"
    /\ UNCHANGED <<usec, conn_pubsub, conn_thread, conn_data, conn_timeout, subs,
                   rpc, call, requests, ret, nmsgs, fin, fout>>

NextSym ==
    \/ Open \/ NextFrame \/ Dispatch \/ Poll \/ AnalyzerOracle \/ Emit \/ Finish
    \/ SwitchTransport \/ NextFrameRedis

SpecSym == InitSym /\ [][NextSym]_vars

(***************************************************************************)
(* check_predictions and crop_frame called on their own: fin holds the     *)
(* arguments of one call, fout what it returned.                           *)
(***************************************************************************)
SeqsUpTo(S, n) == UNION {[1..k -> S] : k \in 0..n}

\* enumerate(): a prediction's index is its 0-based position.
Indexed(ps) == [i \in 1..Len(ps) |-> [ps[i] EXCEPT !.index = i - 1]]

InitCall(inputs) ==
    /\ cfg = BaseCfg
    /\ usec = 0
    /\ InitPipeline
    /\ conn_pubsub = None
    /\ conn_thread = None
    /\ conn_data = None
    /\ conn_timeout = 0
    /\ subs = [s \in 1..MaxCalls |-> NoSub]
    /\ rpc = "idle"
    /\ call = 0
    /\ requests = {}
    /\ ret = None
    /\ nmsgs = 0
    /\ ref = None
    /\ fin \in {Some(i) : i \in inputs}
    /\ fout = None

callOther == <<conn_pubsub, conn_thread, conn_data, conn_timeout, subs, rpc,
               call, requests, ret, nmsgs, ref, fin>>

\* Scores and min_score in tenths.
PolicyPreds ==
    { Prediction(0, l, sc, None) : l \in {"cat", "dog", "bird"}, sc \in {4, 5, 9} }

PolicyInputs ==
    { [fn |-> "check_predictions", predictions |-> Indexed(ps), min_score |-> 5,
       required_labels |-> rq, excluded_labels |-> ex] :
        ps \in SeqsUpTo(PolicyPreds, MaxPreds),
        rq \in {None, Labels({}), Labels({"cat"})},
        ex \in {None, Labels({}), Labels({"dog"})} }

InitPolicy == InitCall(PolicyInputs)

PolicyApply ==
    /\ ~IsNone(fin)
    /\ fin[1].fn = "check_predictions"
    /\ IsNone(fout)
    /\ fout' = Some(check_predictions(fin[1].predictions, fin[1].min_score,
                                      fin[1].required_labels,
                                      fin[1].excluded_labels))
    /\ UNCHANGED plVars
    /\ UNCHANGED fxVars
    /\ UNCHANGED callOther

NextPolicy == PolicyApply

SpecPolicy == InitPolicy /\ [][NextPolicy]_vars

\* The square boxes of one or two pixels a side that lie inside the frame,
\* as (x0, y0, x1, y1) with inclusive corners.
CropBoxes ==
    { <<x, y, x + d, y + d>> :
        x \in 0..(FrameW - 1), y \in 0..(FrameH - 1), d \in {0, 1} }
    \cap { b \in (Int \X Int \X Int \X Int) :
             b[3] <= FrameW - 1 /\ b[4] <= FrameH - 1 }

CropPreds == { Prediction(0, "cat", 9, c) : c \in {None} \cup CropBoxes }

CropInputs ==
    { [fn |-> "crop_frame", frame |-> SourceImage("A", 1), predictions |-> ps,
       margin |-> m, min_width |-> mn[1], min_height |-> mn[2]] :
        ps \in {None} \cup {Some(Indexed(q)) : q \in SeqsUpTo(CropPreds, MaxBoxes)},
        m \in {0, 1}, mn \in {<<1, 1>>, <<2, 2>>, <<3, 3>>} }

InitCrop == InitCall(CropInputs)

CropApply ==
    /\ ~IsNone(fin)
    /\ fin[1].fn = "crop_frame"
    /\ IsNone(fout)
    /\ fout' = Some(crop_frame(fin[1].frame, fin[1].predictions, <<>>,
                               fin[1].margin, fin[1].min_width,
                               fin[1].min_height))
    /\ UNCHANGED plVars
    /\ UNCHANGED fxVars
    /\ UNCHANGED callOther

NextCrop == CropApply

SpecCrop == InitCrop /\ [][NextCrop]_vars

(***************************************************************************)
(* detect_change called on its own, and the pipeline with pruning over the *)
(* thresholds the calls are made with.                                     *)
(***************************************************************************)
\* An image FrameH high and w wide whose first k pixels have luma v, the
\* others 0.
TestImage(w, k, v) ==
    [no |-> 1, x0 |-> 0, y0 |-> 0, w |-> w, h |-> FrameH, c |-> 3,
     luma |-> [i \in 1..(w * FrameH) |-> IF i <= k THEN v ELSE 0]]

DetectImages ==
    { TestImage(FrameW, k, v) : k \in 0..(FrameW * FrameH), v \in {1, 128, 129, 255} }
    \cup {TestImage(FrameW - 1, 0, 0)}

\* bw_threshold (0-255).
DetectBw == {0, 128, 255}

\* change_threshold (0.0-1.0) as a fraction.
DetectCt ==
    { [num |-> 0, den |-> 1], [num |-> 1, den |-> 4], [num |-> 1, den |-> 3],
      [num |-> 1, den |-> 1] }

DetectInputs ==
    { [fn |-> "detect_change", img1 |-> a, img2 |-> b, bw_threshold |-> bw,
       change_threshold |-> ct] :
        a \in DetectImages, b \in DetectImages, bw \in DetectBw, ct \in DetectCt }

PruneCfgs ==
    { [BaseCfg EXCEPT !.input_type = it, !.nframes = n, !.nth_frame = k,
                      !.prune = TRUE, !.pattern = p, !.bw_threshold = bw,
                      !.change_threshold = ct] :
        it \in {INPUT_IMAGE_DIR, INPUT_VIDEO}, n \in 0..MaxFrames,
        k \in 1..MaxNth, p \in Patterns, bw \in DetectBw, ct \in DetectCt }

InitPrune ==
    \/ InitCall(DetectInputs)
    \/ /\ cfg \in PruneCfgs
       /\ usec = 0
       /\ InitPipeline
       /\ InitRedisIdle

\* The call; cv2 raises on images of different shape.
DetectApply ==
    /\ ~IsNone(fin)
    /\ fin[1].fn = "detect_change"
    /\ IsNone(fout)
    /\ fout' = Some(IF CompareRaises(fin[1].img1, fin[1].img2)
                    THEN [raised |-> TRUE, count |-> 0, size |-> 0, above |-> FALSE]
                    ELSE LET r == detect_change(fin[1].img1, fin[1].img2,
                                                fin[1].bw_threshold,
                                                fin[1].change_threshold)
                         IN [raised |-> FALSE, count |-> r.count, size |-> r.size,
                             above |-> r.above])
    /\ UNCHANGED plVars
    /\ UNCHANGED fxVars
    /\ UNCHANGED callOther

NextPrune == DetectApply \/ Open \/ NextFrame \/ Emit \/ Finish

SpecPrune == InitPrune /\ [][NextPrune]_vars

(***************************************************************************)
(* _load_roiscsv called on its own: a table is a header (which columns it  *)
(* has) and up to MaxRows rows; numbers in tenths.                         *)
(***************************************************************************)
GroupCells(cols, vals) ==
    [c \in {cols[i] : i \in 1..4} |->
        NumCell(vals[CHOOSE i \in 1..4 : cols[i] = c])]

RoisRow(g0, gx, sc, lb) ==
    (IF IsNone(g0) THEN <<>> ELSE GroupCells(<<"x0", "y0", "x1", "y1">>, g0[1]))
    @@ (IF IsNone(gx) THEN <<>> ELSE GroupCells(<<"x", "y", "w", "h">>, gx[1]))
    @@ (IF IsNone(sc) THEN <<>> ELSE "score" :> sc[1])
    @@ (IF IsNone(lb) THEN <<>> ELSE "label_str" :> lb[1])

RoisHeaders == [x0 : BOOLEAN, x : BOOLEAN, score : BOOLEAN, label_str : BOOLEAN]

RoisRows(hd) ==
    { RoisRow(g0, gx, sc, lb) :
        g0 \in IF hd.x0 THEN {Some(<<10, 20, 30, 40>>), Some(<<15, 25, 39, 49>>)}
               ELSE {None},
        gx \in IF hd.x THEN {Some(<<100, 200, 50, 50>>), Some(<<15, 25, 20, 29>>)}
               ELSE {None},
        sc \in IF hd.score THEN {Some(NumCell(9)), Some(BadCell)} ELSE {None},
        lb \in IF hd.label_str THEN {Some("cat")} ELSE {None} }

RoisInputs ==
    { [fn |-> "load_roiscsv", rows |-> t] :
        t \in UNION {SeqsUpTo(RoisRows(hd), MaxRows) : hd \in RoisHeaders} }

InitRois == InitCall(RoisInputs)

RoisApply ==
    /\ ~IsNone(fin)
    /\ fin[1].fn = "load_roiscsv"
    /\ IsNone(fout)
    /\ fout' = Some(load_roiscsv(fin[1].rows))
    /\ UNCHANGED plVars
    /\ UNCHANGED fxVars
    /\ UNCHANGED callOther

NextRois == RoisApply

SpecRois == InitRois /\ [][NextRois]_vars

(***************************************************************************)
(* process.process_image with the writing of the input image (lines        *)
(* 97-111) in its steps: cv2.imwrite creates the file and fills it, and    *)
(* os.rename moves a file in one step.  A file that is being written has   *)
(* the kind "tmp_part" (tmp directory) or "in_part" (input directory), a   *)
(* written one "tmp_jpg" or "in_jpg".                                      *)
(***************************************************************************)
\* The image written straight into the input directory, whatever
\* analysis_tmp is.
WriteTargetInput(c) == "in"

\* Lines 97-110: the directory cv2.imwrite writes into.
WriteTarget(c) == IF IsNone(c.analysis_tmp) THEN "in" ELSE "tmp"

Partial(dir) == IF dir = "tmp" THEN "tmp_part" ELSE "in_part"

Written(dir) == IF dir = "tmp" THEN "tmp_jpg" ELSE "in_jpg"

HandoffCfgs ==
    { [BaseCfg EXCEPT !.input_type = INPUT_VIDEO, !.nframes = n,
                      !.analysis_input = Some("in"),
                      !.analysis_output = Some("out"),
                      !.analysis_tmp = tmp, !.analysis_timeout = t,
                      !.analysis_type = at, !.analysis_keep_files = kf,
                      !.output_metadata = TRUE] :
        n \in {1, 2}, tmp \in {None, Some("tmp")}, t \in {2, 10},
        at \in ANALYSIS_TYPES, kf \in BOOLEAN }

InitHandoff ==
    /\ cfg \in HandoffCfgs
    /\ usec \in 0..(TicksPerSec - 1)
    /\ InitPipeline
    /\ InitRedisIdle

\* Lines 102 / 110: cv2.imwrite has created the file.
WriteBegin ==
    /\ pc = "dispatch"
    /\ fs' = fs \cup {File(Partial(WriteTarget(cfg)), frames_count)}
    /\ doc' = 0
    /\ outcome' = "none"
    /\ pc' = "write"
    /\ UNCHANGED <<cfg, cap_open, out_open, crop, count, frames_count,
                   frames_processed, frame_curr, frame_prev, metadata, exc, sink,
                   dispatched, usec, elapsed, fx_end>>
    /\ UNCHANGED rdVars

\* Lines 102 / 110: cv2.imwrite has returned, the file is complete.
WriteEnd ==
    /\ pc = "write"
    /\ fs' = (fs \ {File(Partial(WriteTarget(cfg)), frames_count)})
                \cup {File(Written(WriteTarget(cfg)), frames_count)}
    /\ pc' = IF WriteTarget(cfg) = "tmp" THEN "rename" ELSE "wait"
    /\ UNCHANGED <<cfg, cap_open, out_open, crop, count, frames_count,
                   frames_processed, frame_curr, frame_prev, metadata, exc, sink,
                   dispatched, doc, usec, elapsed, fx_end, outcome>>
    /\ UNCHANGED rdVars

\* Line 105: os.rename(img_tmp_file, img_in_file).
Rename ==
    /\ pc = "rename"
    /\ fs' = (fs \ {File("tmp_jpg", frames_count)})
                \cup {File("in_jpg", frames_count)}
    /\ pc' = "wait"
    /\ UNCHANGED <<cfg, cap_open, out_open, crop, count, frames_count,
                   frames_processed, frame_curr, frame_prev, metadata, exc, sink,
                   dispatched, doc, usec, elapsed, fx_end, outcome>>
    /\ UNCHANGED rdVars

\* Lines 111-126: the names of the result files, the metadata and the
\* polling deadline.
PollStart ==
    /\ pc = "wait"
    /\ metadata' = Some(<<>>)
    /\ fx_end' = PollEnd(usec, cfg.analysis_timeout)
    /\ elapsed' = 0
    /\ dispatched' = Append(dispatched, frames_count)
    /\ pc' = "poll"
    /\ UNCHANGED <<cfg, cap_open, out_open, crop, count, frames_count,
                   frames_processed, frame_curr, frame_prev, exc, sink, fs, doc,
                   usec, outcome>>
    /\ UNCHANGED rdVars

NextHandoff ==
    \/ Open \/ NextFrame \/ WriteBegin \/ WriteEnd \/ Rename \/ PollStart
    \/ Poll \/ AnalyzerWrite \/ Emit \/ Finish

SpecHandoff == InitHandoff /\ [][NextHandoff]_vars

(***************************************************************************)
(* A detection document parsed by _opex_to_predictions and its predictions *)
(* handed to crop_frame, as process_image does for ANALYSIS_OPEXJSON.      *)
(***************************************************************************)
\* Bounding boxes inside the frame, one pixel or one by two pixels.
OpexBoxes ==
    { [left |-> l, top |-> t, right |-> l + d[1], bottom |-> t + d[2]] :
        l \in 0..(FrameW - 1), t \in 0..(FrameH - 1),
        d \in {<<0, 0>>, <<1, 0>>, <<0, 1>>} }
    \cap [left : Int, top : Int, right : 0..(FrameW - 1), bottom : 0..(FrameH - 1)]

OpexObjects == { [label |-> "cat", score |-> 9, bbox |-> b] : b \in OpexBoxes }

OpexCropInputs ==
    { [fn |-> "opex_crop", doc |-> [ok |-> TRUE, objects |-> os],
       frame |-> SourceImage("A", 1), margin |-> 0, min_width |-> 1,
       min_height |-> 1] :
        os \in SeqsUpTo(OpexObjects, MaxBoxes) }

InitOpexCrop == InitCall(OpexCropInputs)

OpexCropApply ==
    /\ ~IsNone(fin)
    /\ fin[1].fn = "opex_crop"
    /\ IsNone(fout)
    /\ fout' = Some(crop_frame(fin[1].frame,
                               Some(load_opexjson(fin[1].doc).preds), <<>>,
                               fin[1].margin, fin[1].min_width,
                               fin[1].min_height))
    /\ UNCHANGED plVars
    /\ UNCHANGED fxVars
    /\ UNCHANGED callOther

NextOpexCrop == OpexCropApply

SpecOpexCrop == InitOpexCrop /\ [][NextOpexCrop]_vars

(***************************************************************************)
(* process.process without analysis, as a program that keeps running: a    *)
(* step that can be taken is taken.                                        *)
(***************************************************************************)
InitTerm ==
    /\ cfg \in SamplingCfgs
    /\ usec = 0
    /\ InitPipeline
    /\ InitRedisIdle

NextTerm == Open \/ NextFrame \/ Emit \/ Finish

SpecTerm == InitTerm /\ [][NextTerm]_vars /\ WF_vars(NextTerm)

(***************************************************************************)
(* Properties.                                                             *)
(***************************************************************************)
ResultKinds == {"rois", "csv", "json"}
TransientKinds == {"in_jpg", "out_jpg"} \cup ResultKinds

\* C1: file exchange timeout.  While no result file of the frame has
\* appeared, process_image is not polling any more once analysis_timeout has
\* elapsed (it is never found at the loop condition a full poll interval
\* after the deadline), and when it has returned by timeout none of the
\* frame's transient files is left.  (Elapsed time in ticks, the timeout in
\* tenths of a tick.)
C1_FileTimeoutStops ==
    /\ (pc = "poll" /\ doc = 0)
          => 10 * elapsed < cfg.analysis_timeout + 10 * cfg.poll_interval
    /\ (outcome = "timeout" /\ doc = 0)
          => \A k \in TransientKinds : File(k, frames_count) \notin fs

\* C2: pub/sub teardown.  The subscription made by a process_image call
\* that has returned (by reply or by timeout) is closed, so none made for an
\* earlier frame is open during a later call.
C2_TornDownBeforeReturn ==
    \A s \in 1..MaxCalls :
        (s < call \/ (s = call /\ rpc = "idle")) => subs[s].state = "closed"

\* C3: pub/sub correlation.  The message process_image parsed as the result
\* for a frame is the reply to the publication of that frame.
C3_ReplyCorrelated ==
    (~IsNone(ret) /\ ~ret[1].no_data) => ret[1].for = ret[1].frameno

\* C4: pub/sub timeout.  With a timeout > 0 and no message on the inbound
\* channel, the wait goes on only while the elapsed time is below the
\* timeout, and the call returns (False, the frame unchanged, empty
\* metadata) at the first poll at which the elapsed time is >= the timeout.
C4_PubSubTimeout ==
    /\ (nmsgs = 0 /\ conn_timeout > 0 /\ rpc \in {"wait", "sleep"})
          => 10 * elapsed < conn_timeout
    /\ (~IsNone(ret) /\ ret[1].nmsgs = 0 /\ conn_timeout > 0)
          => /\ ret[1].no_data
             /\ ~ret[1].keep
             /\ ret[1].frame = CallFrame(ret[1].frameno)
             /\ ret[1].metadata = <<>>
             /\ 10 * ret[1].waited >= conn_timeout
             /\ 10 * (ret[1].waited - 1) < conn_timeout

C4_Witness ==
    /\ ~IsNone(ret)
    /\ ret[1].nmsgs = 0
    /\ ret[1].no_data
    /\ conn_timeout = 15
    /\ ret[1].waited = 2

\* C5: transport symmetry.  When the run of the file-exchange pipeline and
\* the run of the pub/sub pipeline on the same frames, configuration and
\* analysis results have both ended (the output never failing), they
\* dispatched the same frames and emitted the same frames.
C5_TransportSymmetry ==
    (cfg.transport = "redis" /\ ~IsNone(ref) /\ pc \in {"done", "raised"}
       /\ ref[1].exc = "" /\ exc # "IOError")
    => (dispatched = ref[1].dispatched /\ sink = ref[1].sink)

\* C6: a parse error on a frame's analysis result drops that frame only: it
\* does not leave the pipeline loop, which goes on with the next frame.
C6_ParseErrorDropsFrame ==
    outcome = "error" => (pc = "loop" /\ exc = "")

\* C7: when process() has returned or raised, the capture and the sink that
\* were opened are released.
C7_HandlesReleased ==
    pc \in {"done", "raised"} => (~cap_open /\ ~out_open)

\* C8: a dispatch that ends by timeout, like one that ends by a drop verdict,
\* takes the pipeline back to the top of the loop: nothing is emitted, the
\* budget frames_processed and the counters are untouched, the run is not
\* aborted and no handle is released.
C8_TimeoutIsDrop ==
    [][(pc = "poll" /\ outcome = "none" /\ outcome' \in {"timeout", "drop"})
         => /\ pc' = "loop"
            /\ UNCHANGED <<sink, frames_processed, exc, count, frames_count,
                           frame_prev, cap_open, out_open>>]_vars

C8_Witness ==
    /\ outcome = "timeout"
    /\ pc = "loop"
    /\ Len(dispatched) = 2
    /\ Len(sink) = 1
    /\ frames_processed = 1

\* C9: sampling.  With analysis and pruning disabled, no frame window and
\* no max_frames limit, a run over N frames that ends normally has emitted
\* exactly the frames k, 2k, ..., floor(N / k) * k, in that order.
C9_Case ==
    /\ IsNone(cfg.analysis_input)
    /\ ~cfg.prune
    /\ cfg.from_frame <= 0
    /\ cfg.to_frame <= 0
    /\ cfg.max_frames <= 0
    /\ cfg.nth_frame >= 1

C9_Sampling ==
    (C9_Case /\ pc = "done")
    => [i \in 1..Len(sink) |-> sink[i].no]
         = [j \in 1..(cfg.nframes \div cfg.nth_frame) |-> j * cfg.nth_frame]

C9_Witness ==
    /\ C9_Case
    /\ pc = "done"
    /\ cfg.nth_frame = 2
    /\ Len(sink) = 2

\* C10: every emitted frame has a metadata record with frame.width and
\* frame.height when metadata output is enabled (JPG output), also without
\* analysis.
C10_MetadataHasFrameSize ==
    (cfg.output_metadata /\ cfg.output_type = OUTPUT_JPG)
    => \A i \in 1..Len(sink) :
          ~IsNone(sink[i].meta) /\ "frame" \in DOMAIN sink[i].meta[1]

\* C11: the frames written to the output carry strictly increasing source
\* frame numbers (a subsequence of the source order, no frame twice), each
\* being a frame that was already read.
C11_EmittedInOrder ==
    \A i \in 1..Len(sink) :
        /\ sink[i].no \in 1..frames_count
        /\ sink[i].frame.no = sink[i].no
        /\ \A j \in 1..Len(sink) : i < j => sink[i].no < sink[j].no

C11_Witness ==
    /\ cfg.prune
    /\ Len(sink) = 2
    /\ sink[2].no = 4

\* C12: prune baseline.  A frame that has passed the prune check (it is on
\* its way to the dispatch or to the output) is the stored baseline from
\* then on.
C12_BaselineAdvances ==
    (cfg.prune /\ (pc = "dispatch" \/ (pc = "emit" /\ IsNone(cfg.analysis_input))))
    => frame_prev = frame_curr

\* C13: prune comparison failure.  When the comparison of the baseline with
\* the sampled frame raises (the two differ in shape), the step leads back
\* to the top of the loop with baseline and current frame discarded and
\* nothing dispatched, emitted, counted or raised; and a baseline is only
\* ever set to the frame just read, so no frame of a failed pair is compared
\* again.
C13_Case ==
    LET fno == frames_count + 1
        src == SourceImage(PatternKind(cfg.pattern, fno), fno)
    IN /\ pc = "loop"
       /\ cfg.prune
       /\ ~IsNone(frame_prev)
       /\ fno <= cfg.nframes
       /\ ~(cfg.from_frame > 0 /\ fno < cfg.from_frame)
       /\ ~(cfg.to_frame > 0 /\ fno > cfg.to_frame)
       /\ ~(cfg.max_frames > 0 /\ frames_processed >= cfg.max_frames)
       /\ count + 1 >= cfg.nth_frame
       /\ (src.w # frame_prev[1].w \/ src.h # frame_prev[1].h)

C13_CompareFailure ==
    [][/\ C13_Case
          => /\ pc' = "loop"
             /\ frame_prev' = None
             /\ frame_curr' = None
             /\ UNCHANGED <<sink, dispatched, exc, frames_processed, cap_open,
                            out_open>>
       /\ (frame_prev' # frame_prev /\ ~IsNone(frame_prev'))
          => frame_prev'[1].no = frames_count']_vars

C13_Witness ==
    /\ cfg.prune
    /\ cfg.pattern = "odd"
    /\ cfg.nth_frame = 1
    /\ cfg.from_frame <= 0
    /\ pc = "done"
    /\ Len(sink) = 1
    /\ sink[1].no = 4

\* C14: max_frames budget.  frames_processed is the number of frames
\* written (as long as no write failed), with max_frames > 0 never more than
\* max_frames frames are written, and the loop iteration that starts with
\* max_frames frames written ends the loop.
C14_Budget ==
    /\ []((exc # "IOError" => frames_processed = Len(sink))
          /\ (cfg.max_frames > 0 => Len(sink) <= cfg.max_frames))
    /\ [][(pc = "loop" /\ cfg.max_frames > 0 /\ Len(sink) >= cfg.max_frames)
            => pc' = "finish"]_vars

C14_Witness ==
    /\ cfg.max_frames = 1
    /\ Len(dispatched) = 2
    /\ Len(sink) = 1
    /\ frames_processed = 1
    /\ pc = "done"

\* C15: frame window.  No frame with a counter below from_frame (> 0) or
\* above to_frame (> 0) is a prune baseline, dispatched or written; the
\* iteration that reads the first frame above to_frame ends the loop; and
\* with nth_frame = 1 and nothing else selecting, a finished run has
\* written exactly the frames from_frame..to_frame (both inclusive) that
\* the source has.
InWindow(no) ==
    /\ ~(cfg.from_frame > 0 /\ no < cfg.from_frame)
    /\ ~(cfg.to_frame > 0 /\ no > cfg.to_frame)

C15_FrameWindow ==
    /\ [](/\ \A i \in 1..Len(sink) : InWindow(sink[i].no)
          /\ \A i \in 1..Len(dispatched) : InWindow(dispatched[i])
          /\ ~IsNone(frame_prev) => InWindow(frame_prev[1].no)
          /\ pc \in {"dispatch", "poll", "emit"} => InWindow(frames_count)
          /\ (/\ pc = "done"
              /\ IsNone(cfg.analysis_input)
              /\ ~cfg.prune
              /\ cfg.max_frames <= 0
              /\ cfg.nth_frame = 1)
             => LET lo == IF cfg.from_frame > 0 THEN cfg.from_frame ELSE 1
                    hi == IF cfg.to_frame > 0
                          THEN Min(cfg.to_frame, cfg.nframes) ELSE cfg.nframes
                IN [i \in 1..Len(sink) |-> sink[i].no]
                     = [i \in 1..(hi - lo + 1) |-> lo + i - 1])
    /\ [][(pc = "loop" /\ cfg.to_frame > 0 /\ frames_count + 1 > cfg.to_frame)
            => pc' = "finish"]_vars

C15_Witness ==
    /\ cfg.from_frame = 2
    /\ cfg.to_frame = 2
    /\ dispatched = <<2>>
    /\ Len(sink) = 1
    /\ sink[1].no = 2
    /\ pc = "done"

\* A call of check_predictions has returned.
PolicyCall == ~IsNone(fin) /\ fin[1].fn = "check_predictions" /\ ~IsNone(fout)

\* A label list that is None or empty.
Absent(labels) == IsNone(labels) \/ labels[1] = {}

\* A rule of the list fires on prediction p.
Fires(p, labels, min_score) ==
    ~Absent(labels) /\ p.label \in labels[1] /\ p.score >= min_score

AnyFires(a) ==
    \E i \in 1..Len(a.predictions) :
        \/ Fires(a.predictions[i], a.required_labels, a.min_score)
        \/ Fires(a.predictions[i], a.excluded_labels, a.min_score)

\* C16: pass-through.  check_predictions returns True whenever each of
\* required_labels and excluded_labels is None or empty.
C16_PassThrough ==
    (PolicyCall /\ Absent(fin[1].required_labels)
       /\ Absent(fin[1].excluded_labels))
    => fout[1] = TRUE

\* C17: last write wins.  When a rule fires, the verdict is that of the last
\* prediction on which one fires: drop if an excluded label fires on it,
\* else keep; so with required {cat}, excluded {dog} and min_score 0.5,
\* [cat 0.9, dog 0.9] is dropped and [dog 0.9, cat 0.9] is kept.
LabelsScores(ps) == [i \in 1..Len(ps) |-> <<ps[i].label, ps[i].score>>]

CropCall ==
    /\ ~IsNone(fin)
    /\ fin[1].fn = "crop_frame"
    /\ ~IsNone(fin[1].predictions)
    /\ ~IsNone(fout)

BoxCount(ps) == Cardinality({i \in 1..Len(ps) : ~IsNone(ps[i].coords)})

\* C19: crop_frame on predictions none of which has a box returns the frame
\* it was given, with cropped = False and without minimal_bbox, margin_bbox
\* and crop_bbox in the metadata.
C19_NoBoxUnchanged ==
    (CropCall /\ BoxCount(fin[1].predictions[1]) = 0)
    => /\ fout[1].frame = fin[1].frame
       /\ "cropped" \in DOMAIN fout[1].metadata
       /\ fout[1].metadata["cropped"] = FALSE
       /\ DOMAIN fout[1].metadata
            \cap {"minimal_bbox", "margin_bbox", "crop_bbox"} = {}

C19_Witness ==
    /\ CropCall
    /\ Len(fin[1].predictions[1]) = 2
    /\ BoxCount(fin[1].predictions[1]) = 0
    /\ fout[1].frame = fin[1].frame
    /\ fout[1].metadata["cropped"] = FALSE

\* C20: crop rectangle.  With at least one box (all boxes inside the frame),
\* the rectangle recorded as crop_bbox has 0 <= x0 < x1 <= width and
\* 0 <= y0 < y1 <= height, and the returned frame is not empty.
C20_CropRectangle ==
    (CropCall /\ BoxCount(fin[1].predictions[1]) > 0)
    => /\ "crop_bbox" \in DOMAIN fout[1].metadata
       /\ LET cb == fout[1].metadata["crop_bbox"]
          IN /\ 0 <= cb.x0 /\ cb.x0 < cb.x1 /\ cb.x1 <= fin[1].frame.w
             /\ 0 <= cb.y0 /\ cb.y0 < cb.y1 /\ cb.y1 <= fin[1].frame.h
       /\ fout[1].frame.w > 0
       /\ fout[1].frame.h > 0


\* C21: crop minimum size.  With at least one box, the returned region is at
\* least min_width wide unless the crop rectangle touches the left or right
\* edge of the frame, and at least min_height high unless it touches the top
\* or bottom edge.
C21_CropMinSize ==
    (CropCall /\ BoxCount(fin[1].predictions[1]) > 0)
    => LET cb == fout[1].metadata["crop_bbox"]
       IN /\ (cb.x0 > 0 /\ cb.x1 < fin[1].frame.w - 1)
             => fout[1].frame.w >= fin[1].min_width
          /\ (cb.y0 > 0 /\ cb.y1 < fin[1].frame.h - 1)
             => fout[1].frame.h >= fin[1].min_height

\* Box a lies inside box b.
Within(a, b) == b.x0 <= a.x0 /\ b.y0 <= a.y0 /\ a.x1 <= b.x1 /\ a.y1 <= b.y1

\* C22: crop box nesting.  With at least one box, minimal_bbox and crop_bbox
\* are recorded, margin_bbox is recorded exactly when margin > 0 and then
\* contains minimal_bbox, crop_bbox contains margin_bbox (minimal_bbox when
\* there is no margin), and crop_bbox lies inside the frame.
C22_BoxesNested ==
    (CropCall /\ BoxCount(fin[1].predictions[1]) > 0)
    => LET md == fout[1].metadata
       IN /\ {"minimal_bbox", "crop_bbox"} \subseteq DOMAIN md
          /\ ("margin_bbox" \in DOMAIN md) = (fin[1].margin > 0)
          /\ fin[1].margin > 0
             => /\ Within(md["minimal_bbox"], md["margin_bbox"])
                /\ Within(md["margin_bbox"], md["crop_bbox"])
          /\ Within(md["minimal_bbox"], md["crop_bbox"])
          /\ Within(md["crop_bbox"],
                    BBox(0, 0, fin[1].frame.w - 1, fin[1].frame.h - 1))

C22_Witness ==
    /\ CropCall
    /\ fin[1].margin = 1
    /\ fin[1].min_width = 3
    /\ BoxCount(fin[1].predictions[1]) = 1
    /\ fout[1].metadata["minimal_bbox"] = BBox(0, 0, 0, 0)
    /\ fout[1].metadata["margin_bbox"] = BBox(0, 0, 1, 1)
    /\ fout[1].metadata["crop_bbox"] = BBox(0, 0, 3, 2)

\* The frame the last dispatch was for.
LastDispatched == dispatched[Len(dispatched)]

\* process_image has returned a verdict read from a result file.
ResultReturned == dispatched # <<>> /\ outcome \in {"keep", "drop"}

\* C23: file-exchange cleanup after a result.  With analysis_keep_files
\* false, when process_image has returned a verdict none of the frame's
\* exchange files is left: input image, output-directory image and every
\* result file.
C23_CleanAfterResult ==
    (ResultReturned /\ ~cfg.analysis_keep_files)
    => \A k \in TransientKinds : File(k, LastDispatched) \notin fs

\* C24: file-exchange retention.  With analysis_keep_files set, a dispatch
\* deletes none of the frame's files: every step of process_image (the
\* analysis process not writing) leaves each of them in place.
C24_KeepFiles ==
    [][(cfg.analysis_keep_files /\ pc = "poll" /\ doc' = doc)
         => \A k \in TransientKinds :
               File(k, frames_count) \in fs => File(k, frames_count) \in fs']_vars

\* C25: with output_type mjpg crop_frame is never applied: every written
\* frame is the source frame of its number, in its full size, and no crop
\* metadata is produced, also when crop_to_content was requested.
C25_NoCropForVideo ==
    (cfg.transport = "file" /\ cfg.output_type = OUTPUT_MJPG)
    => /\ ~crop
       /\ \A i \in 1..Len(sink) :
             LET src == SourceImage(PatternKind(cfg.pattern, sink[i].no), sink[i].no)
             IN /\ sink[i].frame.w = src.w
                /\ sink[i].frame.h = src.h
                /\ sink[i].frame = src
       /\ (pc = "emit" /\ ~IsNone(metadata))
             => "cropped" \notin DOMAIN metadata[1]

C25_Witness ==
    /\ cfg.output_type = OUTPUT_MJPG
    /\ cfg.crop_to_content
    /\ outcome = "keep"
    /\ doc = 2
    /\ Len(sink) = 1
    /\ sink[1].no = LastDispatched
    /\ sink[1].frame.w = FrameW

\* A call of detect_change has returned.
DetectCall == ~IsNone(fin) /\ fin[1].fn = "detect_change" /\ ~IsNone(fout)

\* C26: change detector on identical frames.  detect_change(img, img, ...)
\* yields a count (hence a ratio) of 0 for every bw_threshold in 0..255 and
\* "no change" for every change_threshold >= 0; and a pruning run over a
\* source of identical frames writes no frame.
C26_IdenticalFrames ==
    /\ (DetectCall /\ fin[1].img1 = fin[1].img2
          /\ fin[1].bw_threshold >= 0 /\ fin[1].change_threshold.num >= 0)
       => /\ ~fout[1].raised
          /\ fout[1].size > 0
          /\ fout[1].count = 0
          /\ ~fout[1].above
    /\ (cfg.prune /\ cfg.pattern = "same" /\ cfg.bw_threshold >= 0
          /\ cfg.change_threshold.num >= 0)
       => sink = <<>>

C26_Witness ==
    /\ cfg.prune
    /\ cfg.pattern = "same"
    /\ cfg.bw_threshold = 0
    /\ cfg.change_threshold.num = 0
    /\ cfg.nth_frame = 1
    /\ frames_count = 3
    /\ ~IsNone(frame_prev)
    /\ frame_prev[1].no = 1
    /\ ~IsNone(frame_curr)
    /\ frame_curr[1].no = 3
    /\ sink = <<>>

\* A call of _load_roiscsv has returned without raising.
RoisCall ==
    /\ ~IsNone(fin)
    /\ fin[1].fn = "load_roiscsv"
    /\ ~IsNone(fout)
    /\ fout[1].ok

\* The integer a non-negative cell (in tenths) is truncated to.
Trunc(cell) == cell.tenths \div 10

\* The box of the columns x0, y0, x1, y1 of a row.
CornerBox(row) ==
    <<Trunc(row["x0"]), Trunc(row["y0"]), Trunc(row["x1"]), Trunc(row["y1"])>>

\* The box of the columns x, y, w, h of a row.
SizeBox(row) ==
    <<Trunc(row["x"]), Trunc(row["y"]), Trunc(row["x"]) + Trunc(row["w"]) - 1,
      Trunc(row["y"]) + Trunc(row["h"]) - 1>>

\* C27: ROI box resolution order.  The box of a row is that of x0, y0, x1,
\* y1 when the table has these columns, also when it has x, y, w, h as
\* well; that of x, y, w, h only when it has no x0 group; and none when it
\* has neither.
C27_CornerGroupFirst ==
    RoisCall =>
    \A i \in 1..Len(fin[1].rows) :
        LET row == fin[1].rows[i]
        IN fout[1].preds[i].coords
             = IF "x0" \in DOMAIN row THEN CornerBox(row)
               ELSE IF "x" \in DOMAIN row THEN SizeBox(row)
               ELSE None

\* C28: ROI parsing of one row.  Row i (0-based) of the table becomes the
\* prediction with index i; a row with only x, y, w, h has the box
\* (x, y, x + w - 1, y + h - 1), so 10, 20, 5, 5 gives (10, 20, 14, 24); a
\* row with only x0, y0, x1, y1 has that box; the score is that of the score
\* column, 1.0 without one; the label that of label_str, "" without one.
C28_RowParsing ==
    RoisCall =>
    /\ Len(fout[1].preds) = Len(fin[1].rows)
    /\ \A i \in 1..Len(fin[1].rows) :
          LET row == fin[1].rows[i]
              p == fout[1].preds[i]
              cols == DOMAIN row
          IN /\ p.index = i - 1
             /\ ("x" \in cols /\ "x0" \notin cols) => p.coords = SizeBox(row)
             /\ ("x0" \in cols /\ "x" \notin cols) => p.coords = CornerBox(row)
             /\ ("x" \in cols /\ "x0" \notin cols /\ row["x"].tenths = 100
                   /\ row["y"].tenths = 200 /\ row["w"].tenths = 50
                   /\ row["h"].tenths = 50)
                => p.coords = <<10, 20, 14, 24>>
             /\ p.score = IF "score" \in cols THEN row["score"].tenths ELSE 10
             /\ p.label = IF "label_str" \in cols THEN row["label_str"] ELSE ""

C28_Witness ==
    /\ RoisCall
    /\ Len(fin[1].rows) = 2
    /\ DOMAIN fin[1].rows[2] = {"x", "y", "w", "h"}
    /\ fin[1].rows[2]["x"].tenths = 100
    /\ fout[1].preds[2] = Prediction(1, "", 10, <<10, 20, 14, 24>>)

\* C29: atomic hand-off.  With analysis_tmp configured, no partially
\* written image ever has the final name in the input directory; an image
\* appears under the final name only in the step that takes the completely
\* written temp file of the frame away (the rename); and while process_image
\* polls, the write and the rename are over (no temp file is left).
C29_AtomicHandoff ==
    /\ [](~IsNone(cfg.analysis_tmp)
            => /\ \A f \in fs : f.kind # "in_part"
               /\ pc = "poll" => \A f \in fs : f.kind \notin {"tmp_part", "tmp_jpg"})
    /\ [][~IsNone(cfg.analysis_tmp)
            => \A f \in fs' \ fs :
                  f.kind = "in_jpg"
                  => /\ File("tmp_jpg", f.no) \in fs \ fs'
                     /\ File("tmp_part", f.no) \notin fs]_vars

C29_Witness ==
    /\ ~IsNone(cfg.analysis_tmp)
    /\ pc = "poll"
    /\ dispatched = <<1, 2>>
    /\ File("in_jpg", 2) \in fs
    /\ doc = 0

\* C30: pub/sub result hand-off.  While a dispatch is under way the slot
\* redis_conn.data is written by the handler of that dispatch's
\* subscription only; and when a handler signals completion (pubsub = None)
\* the slot holds the payload of the message this handler was called with,
\* which is what the dispatcher then finds on leaving the wait loop.
C30_SlotHandoff ==
    [][\A s \in 1..MaxCalls :
          /\ (rpc # "idle" /\ subs[s].hpc = "idle" /\ subs'[s].hpc = "h97")
                => s = call
          /\ (subs[s].hpc = "h99" /\ subs'[s].hpc = "idle")
                => conn_data = subs[s].data]_vars

\* C31: pub/sub deadline race.  When the dispatcher wakes up from its sleep
\* and a handler has already stored a reply and signalled completion
\* (pubsub is None), the call does not return by timeout.
C31_ReplyBeatsDeadline ==
    [][(rpc = "sleep" /\ IsNone(conn_pubsub) /\ ~IsNone(conn_data)
          /\ rpc' = "idle")
         => ~ret'[1].no_data]_vars

\* C32: pub/sub ordering.  When the frame is about to be published the
\* subscription of the call is open and its worker thread running, and a
\* reply to a published frame is put into the inbox of the subscription
\* made for that frame.
C32_SubscribedBeforePublish ==
    /\ [](rpc = "publish" => (subs[call].state = "open" /\ subs[call].running))
    /\ [][\A f \in requests \ requests' :
             Len(subs'[f].inbox) = Len(subs[f].inbox) + 1]_vars

\* The box crop_frame works on before the size correction.
PreCorrection(md) ==
    IF "margin_bbox" \in DOMAIN md THEN md["margin_bbox"] ELSE md["minimal_bbox"]

\* The pair (lo, hi) after the correction as the formula gives it.
Corrected(lo, hi, min_size, size) ==
    LET cw == hi - lo + 1
        inc == (min_size - cw) \div 2
        lo2 == IF lo - inc > 0 THEN lo - inc ELSE 0
        hi2 == IF lo2 + min_size < size - 1 THEN lo2 + min_size ELSE size - 1
    IN IF cw < min_size THEN <<lo2, hi2>> ELSE <<lo, hi>>

\* C33: width/height correction.  With cw = x1 - x0 + 1 of the box after
\* the margin: if cw < min_width then inc = (min_width - cw) div 2,
\* x0' = max(0, x0 - inc), x1' = min(width - 1, x0' + min_width), else x0, x1
\* stay; the same for y0, y1 with min_height and height.
C33_SizeCorrection ==
    (CropCall /\ BoxCount(fin[1].predictions[1]) > 0)
    => LET md == fout[1].metadata
           b == PreCorrection(md)
           cb == md["crop_bbox"]
       IN /\ <<cb.x0, cb.x1>>
               = Corrected(b.x0, b.x1, fin[1].min_width, fin[1].frame.w)
          /\ <<cb.y0, cb.y1>>
               = Corrected(b.y0, b.y1, fin[1].min_height, fin[1].frame.h)

C33_Witness ==
    /\ CropCall
    /\ fin[1].margin = 0
    /\ fin[1].min_width = 3
    /\ BoxCount(fin[1].predictions[1]) = 1
    /\ fout[1].metadata["minimal_bbox"] = BBox(2, 1, 2, 1)
    /\ fout[1].metadata["crop_bbox"] = BBox(1, 0, 3, 2)

\* A detection document was parsed and cropped to.
OpexCropCall ==
    /\ ~IsNone(fin)
    /\ fin[1].fn = "opex_crop"
    /\ fin[1].doc.objects # <<>>
    /\ ~IsNone(fout)

\* C34: boxes of a detection document.  The enclosing rectangle crop_frame
\* computes from the predictions of a detection document has x0 = the
\* smallest left, y0 = the smallest top, x1 = the largest right and y1 = the
\* largest bottom of the document's boxes.
C34_OpexBoxNormalized ==
    OpexCropCall
    => LET os == fin[1].doc.objects
           mb == fout[1].metadata["minimal_bbox"]
       IN /\ \A i \in 1..Len(os) :
                /\ mb.x0 <= os[i].bbox.left /\ os[i].bbox.right <= mb.x1
                /\ mb.y0 <= os[i].bbox.top /\ os[i].bbox.bottom <= mb.y1
          /\ \E i \in 1..Len(os) : mb.x1 = os[i].bbox.right
          /\ \E i \in 1..Len(os) : mb.y1 = os[i].bbox.bottom

\* The pixels (1-based, row-major) at which the two images of the call
\* differ in luma by at least d.
DiffAtLeast(d) ==
    {i \in 1..Len(fin[1].img1.luma) :
        LET a == fin[1].img1.luma[i]
            b == fin[1].img2.luma[i]
        IN (IF a >= b THEN a - b ELSE b - a) >= d}

\* C35: change detector normalization.  The ratio detect_change returns is
\* the foreground count over height x width of the frame: the divisor is
\* h * w, the count never exceeds it, and the ratio is 1 when every pixel is
\* foreground.
C35_RatioNormalized ==
    (DetectCall /\ ~fout[1].raised)
    => /\ fout[1].size = fin[1].img1.h * fin[1].img1.w
       /\ fout[1].count <= fout[1].size
       /\ fout[1].count = fin[1].img1.h * fin[1].img1.w
            => fout[1].count = fout[1].size

\* C36: binarization boundary.  The foreground pixels detect_change counts
\* are those whose absolute luma difference is >= bw_threshold.
C36_ThresholdInclusive ==
    (DetectCall /\ ~fout[1].raised)
    => fout[1].count = Cardinality(DiffAtLeast(fin[1].bw_threshold))

C38_Case ==
    LET fno == frames_count + 1
    IN /\ pc = "loop"
       /\ cfg.prune
       /\ IsNone(frame_prev)
       /\ fno <= cfg.nframes
       /\ InWindow(fno)
       /\ ~(cfg.max_frames > 0 /\ frames_processed >= cfg.max_frames)
       /\ count + 1 >= cfg.nth_frame

\* C38: prune baseline consumption.  With pruning and no baseline stored,
\* the next sampled frame becomes the baseline and the iteration ends there:
\* nothing is dispatched or written and frames_processed stays; and the
\* frame that is the baseline is at no time among the dispatched or written
\* frames.
C38_BaselineConsumed ==
    /\ [][C38_Case
            => /\ ~IsNone(frame_prev')
               /\ frame_prev'[1].no = frames_count + 1
               /\ frame_prev'[1]
                    = SourceImage(PatternKind(cfg.pattern, frames_count + 1),
                                  frames_count + 1)
               /\ pc' = "loop"
               /\ UNCHANGED <<sink, dispatched, frames_processed>>]_vars
    /\ [](~IsNone(frame_prev)
            => /\ \A i \in 1..Len(sink) : sink[i].no # frame_prev[1].no
               /\ \A i \in 1..Len(dispatched) : dispatched[i] # frame_prev[1].no)

C38_Witness ==
    /\ cfg.prune
    /\ cfg.pattern = "odd"
    /\ cfg.nth_frame = 1
    /\ frames_count = 4
    /\ ~IsNone(frame_prev)
    /\ frame_prev[1].no = 3
    /\ Len(sink) = 1
    /\ sink[1].no = 4
    /\ frames_processed = 1

\* The frame the next loop iteration reads is selected for processing.
C39_Selected ==
    LET fno == frames_count + 1
    IN /\ fno <= cfg.nframes
       /\ InWindow(fno)
       /\ ~(cfg.max_frames > 0 /\ frames_processed >= cfg.max_frames)
       /\ count + 1 >= cfg.nth_frame

\* C39: sampling counter.  Every loop iteration adds one to the counter,
\* also for a frame before from_frame, and sets it to 0 exactly when the
\* frame is selected, whatever happens to the frame then; so with analysis,
\* pruning and max_frames off a finished run has written exactly the frames
\* max(from_frame, nth_frame) + j * nth_frame (j >= 0) up to to_frame and
\* the end of the source.
C39_SamplingCounter ==
    /\ [][pc = "loop" /\ frames_count' # frames_count
            => count' = IF C39_Selected THEN 0 ELSE count + 1]_vars
    /\ [](/\ IsNone(cfg.analysis_input)
          /\ ~cfg.prune
          /\ cfg.max_frames <= 0
          /\ pc = "done"
          => LET first == IF cfg.from_frame > cfg.nth_frame
                          THEN cfg.from_frame ELSE cfg.nth_frame
                 last == IF cfg.to_frame > 0 /\ cfg.to_frame < cfg.nframes
                         THEN cfg.to_frame ELSE cfg.nframes
                 n == IF last < first THEN 0
                      ELSE (last - first) \div cfg.nth_frame + 1
             IN [i \in 1..Len(sink) |-> sink[i].no]
                  = [j \in 1..n |-> first + (j - 1) * cfg.nth_frame])

C39_Witness ==
    /\ IsNone(cfg.analysis_input)
    /\ ~cfg.prune
    /\ cfg.max_frames <= 0
    /\ cfg.from_frame = 2
    /\ cfg.nth_frame = 1
    /\ cfg.to_frame <= 0
    /\ pc = "done"
    /\ Len(sink) = 3
    /\ sink[1].no = 2
    /\ sink[3].no = 4

\* C40: pipeline termination.  Without analysis, for every source of N
\* frames and every nth_frame, max_frames, from_frame, to_frame and prune
\* setting, the run ends: unless an exception leaves process(), the loop is
\* left and capture and sink are released; and at most max(N + 1,
\* from_frame) frames are read.
C40_Terminates ==
    /\ <>(pc = "done" \/ exc # "")
    /\ [](pc = "done" => (~cap_open /\ ~out_open))
    /\ [](frames_count <= Max(cfg.nframes + 1, cfg.from_frame))

C40_Witness ==
    /\ IsNone(cfg.analysis_input)
    /\ cfg.from_frame = 2
    /\ cfg.nframes = 0
    /\ cfg.prune
    /\ pc = "done"
    /\ frames_count = 2
    /\ exc = ""

=============================================================================
